---- MODULE Spec2Model ----
(***************************************************************************)
(* typed-pg: the QueryBuilder (query-builder.ts), its escaping helpers     *)
(* (utils.ts) and the statements it hands to the executor (client.raw).    *)
(*                                                                         *)
(* A piece of SQL text is a sequence of atoms.  Every character that comes *)
(* from the caller (identifiers, raw fragments) is one atom, so that the   *)
(* escaping functions work character by character; a keyword the builder   *)
(* writes itself ("SELECT", "ORDER BY") is one atom, and so is each        *)
(* separator and each "?" placeholder.                                     *)
(***************************************************************************)
EXTENDS Integers, Sequences, FiniteSets, TLC

VARIABLES
    selectColumns,      \* QueryBuilder.selectColumns
    whereConditions,    \* QueryBuilder.whereConditions
    limitValue,         \* QueryBuilder.limitValue
    offsetValue,        \* QueryBuilder.offsetValue
    orderByConditions,  \* QueryBuilder.orderByConditions
    joinConditions,     \* QueryBuilder.joinConditions
    calls,              \* number of configuration calls made so far
    args,               \* the arguments of the last insert / upsert call
    last,               \* the outcome of the last method called
    changes,            \* SchemaBuilder.changes
    tableBuilder,       \* the TableBuilder a caller or a callback is configuring
    postgres,           \* the database behind client.postgres
    folder,             \* the migration files in the Migrator's folder
    running             \* the migrate() and up() invocations under way

vars == <<selectColumns, whereConditions, limitValue, offsetValue,
          orderByConditions, joinConditions, calls, args, last,
          changes, tableBuilder, postgres, folder, running>>

builder == <<selectColumns, whereConditions, limitValue, offsetValue,
             orderByConditions, joinConditions>>

schema == <<changes, tableBuilder, postgres, folder, running>>

-----------------------------------------------------------------------------
(* JavaScript values, as far as the builder looks at them.                 *)

Undefined == [t |-> "undefined", n |-> 0, s |-> "", a |-> <<>>]
Null == [t |-> "null", n |-> 0, s |-> "", a |-> <<>>]
Num(k) == [t |-> "number", n |-> k, s |-> "", a |-> <<>>]
Str(x) == [t |-> "string", n |-> 0, s |-> x, a |-> <<>>]
Arr(xs) == [t |-> "array", n |-> 0, s |-> "", a |-> xs]
Obj(k) == [t |-> "object", n |-> k, s |-> "", a |-> <<>>]

\* An identifier argument: a string (its characters), a RawSql, or undefined.
Ident(cs) == [def |-> TRUE, raw |-> FALSE, chars |-> cs]
rawSql(cs) == [def |-> TRUE, raw |-> TRUE, chars |-> cs]
NoIdent == [def |-> FALSE, raw |-> FALSE, chars |-> <<>>]

-----------------------------------------------------------------------------
(* Sequences of atoms.                                                     *)

RECURSIVE Flatten(_)
Flatten(ss) == IF ss = <<>> THEN <<>> ELSE Head(ss) \o Flatten(Tail(ss))

\* Array.prototype.join: the separator goes between every two elements,
\* empty elements included.
RECURSIVE Join(_, _)
Join(ss, sep) ==
    IF ss = <<>> THEN <<>>
    ELSE IF Len(ss) = 1 THEN ss[1]
    ELSE ss[1] \o sep \o Join(Tail(ss), sep)

\* String.prototype.replace(/c/g, by): every occurrence of the character c.
RECURSIVE ReplaceAll(_, _, _)
ReplaceAll(cs, c, by) ==
    IF cs = <<>> THEN <<>>
    ELSE (IF Head(cs) = c THEN by ELSE <<Head(cs)>>) \o ReplaceAll(Tail(cs), c, by)

\* The number of leading atoms of cs equal to c.
RECURSIVE LeadingRun(_, _)
LeadingRun(cs, c) ==
    IF cs = <<>> \/ Head(cs) # c THEN 0 ELSE 1 + LeadingRun(Tail(cs), c)

Reverse(cs) == [i \in 1..Len(cs) |-> cs[Len(cs) + 1 - i]]

Least(S) == IF S = {} THEN 0 ELSE CHOOSE i \in S : \A k \in S : i <= k

\* The first index at which pat occurs in cs, or 0.
FirstMatch(cs, pat) ==
    Least({i \in 1..(Len(cs) - Len(pat) + 1) :
              \A j \in 1..Len(pat) : cs[i + j - 1] = pat[j]})

\* cs with the n atoms from index i on replaced by the atoms of by (i = 0: no match).
ReplaceAt(cs, i, n, by) ==
    IF i = 0 THEN cs ELSE SubSeq(cs, 1, i - 1) \o by \o SubSeq(cs, i + n, Len(cs))

\* The /i flag of the COUNT(*) pattern.
Lower(c) ==
    CASE c = "C" -> "c" [] c = "O" -> "o" [] c = "U" -> "u"
      [] c = "N" -> "n" [] c = "T" -> "t" [] OTHER -> c

LowerAll(cs) == [i \in 1..Len(cs) |-> Lower(cs[i])]

-----------------------------------------------------------------------------
(* utils.ts                                                                *)

DQ == "\""

\* `"${identifier.replace(/"/g, '""').replace(/\./g, '"."')}"`
quoteAll(cs) ==
    <<DQ>> \o ReplaceAll(ReplaceAll(cs, DQ, <<DQ, DQ>>), ".", <<DQ, ".", DQ>>) \o <<DQ>>

\* .replace(/^["]{1,}/, '"'), on a text that starts with a double quote
collapseHead(q) == <<DQ>> \o SubSeq(q, LeadingRun(q, DQ) + 1, Len(q))

\* .replace(/["]{1,}$/, '"'), on a text that ends with a double quote
collapseTail(q) == SubSeq(q, 1, Len(q) - LeadingRun(Reverse(q), DQ)) \o <<DQ>>

\* .replace('"*"', '*'): the first occurrence
replaceStar(q) == ReplaceAt(q, FirstMatch(q, <<DQ, "*", DQ>>), 3, <<"*">>)

\* .replace(/"COUNT\(\*\)"/i, 'COUNT(*)'): the first occurrence
replaceCount(q) ==
    ReplaceAt(q, FirstMatch(LowerAll(q), <<DQ, "c", "o", "u", "n", "t", "(", "*", ")", DQ>>),
              10, <<"C", "O", "U", "N", "T", "(", "*", ")">>)

escapeIdentifier(identifier) ==
    IF identifier.raw THEN identifier.chars
    ELSE replaceCount(replaceStar(collapseTail(collapseHead(quoteAll(identifier.chars)))))

\* escapeValue of a string, character by character:
\* value === 'now()' ? value : `'${value.replace(/'/g, "''")}'`
escapeValueString(cs) ==
    IF cs = <<"n", "o", "w", "(", ")">> THEN cs
    ELSE <<"'">> \o ReplaceAll(cs, "'", <<"'", "'">>) \o <<"'">>

-----------------------------------------------------------------------------
(* query-builder.ts: constants and the records the builder accumulates.    *)

NormalOperators == {"=", "!=", "<", "<=", ">", ">="}
ArrayOperators == {"IN", "NOT IN"}
NullOperators == {"IS NULL", "IS NOT NULL"}
JsonOperators == {"@>"}
\* (mutant) a list of operators that also holds 'like'
OperatorsAndLike ==
    NormalOperators \cup ArrayOperators \cup NullOperators \cup JsonOperators \cup {"like"}

Operators == NormalOperators \cup ArrayOperators \cup NullOperators \cup JsonOperators
QueryOrderDirections == {"ASC", "DESC", "asc", "desc"}

\* Array.prototype.includes on a list of strings: only a primitive string is found.
Includes(set, v) == v.t = "string" /\ v.s \in set

\* (mutant) `if (this.limitValue !== undefined)`: zero counts as a limit
Defined(v) == v.t # "undefined"

\* The truthiness test of `if (this.limitValue)`.
Truthy(v) ==
    CASE v.t \in {"number", "boolean"} -> v.n # 0
      [] v.t = "string" -> v.s # ""
      [] v.t \in {"undefined", "null"} -> FALSE
      [] OTHER -> TRUE

ColumnCondition(type, column, operator, value) ==
    [kind |-> "column", type |-> type, column |-> column, operator |-> operator,
     value |-> value, sql |-> <<>>, params |-> <<>>]

RawCondition(type, sql, params) ==
    [kind |-> "raw", type |-> type, column |-> NoIdent, operator |-> "",
     value |-> Undefined, sql |-> sql, params |-> params]

ColumnOrder(column, direction) ==
    [type |-> "column", column |-> column, direction |-> direction,
     sql |-> <<>>, params |-> <<>>]

RawOrder(sql, params) ==
    [type |-> "raw", column |-> NoIdent, direction |-> "", sql |-> sql, params |-> params]

JoinCondition(type, table, left, operator, right) ==
    [type |-> type, table |-> table, left |-> left, operator |-> operator, right |-> right]

\* A selected column: a plain name, or a JsonSelectField {column, fields, alias?}.
PlainColumn(cs) == [json |-> FALSE, column |-> cs, fields |-> <<>>, alias |-> <<>>]
JsonSelectField(cs, fs, al) == [json |-> TRUE, column |-> cs, fields |-> fs, alias |-> al]

\* The table the builder was constructed for.
table == Ident(<<"t">>)

\* What a method did: the error it threw (or "") and the message of that
\* error where it is composed, the executor calls it made
\* (client.raw(sql, ...params)), and the {sql, params} toSql() returned; arg
\* is the number limit() or offset() was given.
Outcome(op, error, raw, sql, params) ==
    [op |-> op, arg |-> Undefined, error |-> error, message |-> <<>>, raw |-> raw,
     sql |-> sql, params |-> params]

Configured(op) == Outcome(op, "", <<>>, <<>>, <<>>)
ConfiguredWith(op, arg) == [Configured(op) EXCEPT !.arg = arg]
Threw(op, error) == Outcome(op, error, <<>>, <<>>, <<>>)
Executed(op, sql, params) ==
    Outcome(op, "", <<[sql |-> sql, params |-> params]>>, <<>>, <<>>)

\* The values argument of insert and upsert: one row object, or an array of rows.
\* A row object is the sequence of its [k, v] entries in key order.
One(row) == [array |-> FALSE, rows |-> <<row>>]
Many(rows) == [array |-> TRUE, rows |-> rows]

\* The arguments of an insert or upsert call; hasUpdate tells options.update was given.
Args(values, conflict, updates, hasUpdate, returning) ==
    [values |-> values, conflict |-> conflict, update |-> updates, hasUpdate |-> hasUpdate,
     returning |-> returning]

NoArgs == Args(Many(<<>>), <<>>, <<>>, FALSE, <<>>)

-----------------------------------------------------------------------------
(* query-builder.ts: configuration calls.                                  *)

select(columns) ==
    /\ selectColumns' = IF Len(columns) > 0 THEN columns ELSE selectColumns
    /\ last' = Configured("select")
    /\ calls' = calls + 1
    /\ UNCHANGED <<whereConditions, limitValue, offsetValue, orderByConditions,
                   joinConditions, args, schema>>

\* where (type "AND") and orWhere (type "OR") differ in the tag they store only.
addWhere(op, type, column, operatorOrValue, value) ==
    /\ calls' = calls + 1
    /\ UNCHANGED <<selectColumns, limitValue, offsetValue, orderByConditions,
                   joinConditions, args, schema>>
    /\ IF value.t = "undefined" /\ ~Includes(NullOperators, operatorOrValue)
       THEN /\ whereConditions' =
                   Append(whereConditions, ColumnCondition(type, column, "=", operatorOrValue))
            /\ last' = Configured(op)
       ELSE IF ~Includes(Operators, operatorOrValue)
       THEN /\ last' = Threw(op, "Invalid operator")
            /\ UNCHANGED whereConditions
       ELSE /\ whereConditions' =
                   Append(whereConditions,
                          ColumnCondition(type, column, operatorOrValue.s, value))
            /\ last' = Configured(op)

where(column, operatorOrValue, value) ==
    addWhere("where", "AND", column, operatorOrValue, value)

orWhere(column, operatorOrValue, value) ==
    addWhere("orWhere", "OR", column, operatorOrValue, value)

whereRaw(sql, params) ==
    /\ whereConditions' = Append(whereConditions, RawCondition("AND", sql, params))
    /\ last' = Configured("whereRaw")
    /\ calls' = calls + 1
    /\ UNCHANGED <<selectColumns, limitValue, offsetValue, orderByConditions,
                   joinConditions, args, schema>>

orWhereRaw(sql, params) ==
    /\ whereConditions' = Append(whereConditions, RawCondition("OR", sql, params))
    /\ last' = Configured("orWhereRaw")
    /\ calls' = calls + 1
    /\ UNCHANGED <<selectColumns, limitValue, offsetValue, orderByConditions,
                   joinConditions, args, schema>>

limit(value) ==
    /\ limitValue' = value
    /\ last' = ConfiguredWith("limit", value)
    /\ calls' = calls + 1
    /\ UNCHANGED <<selectColumns, whereConditions, offsetValue, orderByConditions,
                   joinConditions, args, schema>>

offset(value) ==
    /\ offsetValue' = value
    /\ last' = ConfiguredWith("offset", value)
    /\ calls' = calls + 1
    /\ UNCHANGED <<selectColumns, whereConditions, limitValue, orderByConditions,
                   joinConditions, args, schema>>

orderBy(column, directionArg) ==
    LET direction == IF directionArg.t = "undefined" THEN Str("ASC") ELSE directionArg
    IN  /\ calls' = calls + 1
        /\ UNCHANGED <<selectColumns, whereConditions, limitValue, offsetValue,
                       joinConditions, args, schema>>
        /\ IF ~Includes(QueryOrderDirections, direction)
           THEN /\ last' = Threw("orderBy", "Invalid order direction")
                /\ UNCHANGED orderByConditions
           ELSE /\ orderByConditions' =
                       Append(orderByConditions, ColumnOrder(column, direction.s))
                /\ last' = Configured("orderBy")

orderByRaw(sql, params) ==
    /\ orderByConditions' = Append(orderByConditions, RawOrder(sql, params))
    /\ last' = Configured("orderByRaw")
    /\ calls' = calls + 1
    /\ UNCHANGED <<selectColumns, whereConditions, limitValue, offsetValue,
                   joinConditions, args, schema>>

\* join (type "INNER") and leftJoin (type "LEFT") both go through addJoin.  The
\* third argument is the right operand of the 3-argument form and the operator
\* of the 4-argument form.
addJoin(op, type, tbl, left, operatorOrRight, right) ==
    /\ calls' = calls + 1
    /\ UNCHANGED <<selectColumns, whereConditions, limitValue, offsetValue,
                   orderByConditions, args, schema>>
    /\ IF ~right.def
       THEN /\ joinConditions' =
                   Append(joinConditions, JoinCondition(type, tbl, left, "=", operatorOrRight))
            /\ last' = Configured(op)
       ELSE IF ~(/\ ~operatorOrRight.raw
                 /\ Len(operatorOrRight.chars) = 1
                 /\ operatorOrRight.chars[1] \in NormalOperators)
       THEN /\ last' = Threw(op, "Invalid join operator")
            /\ UNCHANGED joinConditions
       ELSE /\ joinConditions' =
                   Append(joinConditions,
                          JoinCondition(type, tbl, left, operatorOrRight.chars[1], right))
            /\ last' = Configured(op)

join(tbl, left, operatorOrRight, right) ==
    addJoin("join", "INNER", tbl, left, operatorOrRight, right)

leftJoin(tbl, left, operatorOrRight, right) ==
    addJoin("leftJoin", "LEFT", tbl, left, operatorOrRight, right)

-----------------------------------------------------------------------------
(* query-builder.ts: compilation.                                          *)

SP == <<" ">>
COMMA == <<",">>
Q == <<"?">>

\* value.map(() => '?').join(','), and params.push(...value) for an array.
Placeholders(n) == Join([i \in 1..n |-> Q], COMMA)
Elements(value) == [i \in 1..Len(value.a) |-> Num(value.a[i])]

Compiled(sql, params) == [ok |-> TRUE, sql |-> sql, params |-> params]
\* Spreading a value that is not an array (params.push(...value)) throws a TypeError.
TypeError == [ok |-> FALSE, sql |-> <<>>, params |-> <<>>]

\* (mutant) buildWhereSql without the update-mode branch for IN / NOT IN
conditionSqlExpanding(condition, prefix, column, mode) ==
    IF condition.kind = "raw"
    THEN Compiled(prefix \o <<"(">> \o condition.sql \o <<")">>, condition.params)
    ELSE IF condition.operator \in NullOperators
    THEN Compiled(prefix \o column \o <<" ", condition.operator>>, <<>>)
    ELSE IF condition.operator \in ArrayOperators
    THEN IF condition.value.t # "array" THEN TypeError
         ELSE Compiled(prefix \o column \o <<" ", condition.operator, " ", "(">>
                       \o Placeholders(Len(condition.value.a)) \o <<")">>,
                       Elements(condition.value))
    ELSE Compiled(prefix \o column \o <<" ", condition.operator, " ", "?">>,
                  <<condition.value>>)

\* The callback of buildWhereSql's map for one condition; prefix is the
\* condition's tag and column its escaped column name.
conditionSql(condition, prefix, column, mode) ==
    IF condition.kind = "raw"
    THEN Compiled(prefix \o <<"(">> \o condition.sql \o <<")">>, condition.params)
    ELSE IF condition.operator \in NullOperators
    THEN Compiled(prefix \o column \o <<" ", condition.operator>>, <<>>)
    ELSE IF condition.operator \in ArrayOperators
    THEN IF mode = "update"
         THEN Compiled(prefix \o column \o <<" ", "= ANY(", "?", ")">>, <<condition.value>>)
         ELSE IF condition.value.t # "array" THEN TypeError
         ELSE Compiled(prefix \o column \o <<" ", condition.operator, " ", "(">>
                       \o Placeholders(Len(condition.value.a)) \o <<")">>,
                       Elements(condition.value))
    ELSE Compiled(prefix \o column \o <<" ", condition.operator, " ", "?">>,
                  <<condition.value>>)

\* (mutant) the first condition gets its tag too
conditionPrefixAlways(condition, index) == <<condition.type, " ">>

\* const prefix = index > 0 ? `${condition.type} ` : ''   (index counted from 1 here)
conditionPrefix(condition, index) ==
    IF index > 1 THEN <<condition.type, " ">> ELSE <<>>

whereClause(parts) ==
    IF Len(parts) = 0 THEN Compiled(<<>>, <<>>)
    ELSE [ok |-> \A i \in 1..Len(parts) : parts[i].ok,
          sql |-> <<"WHERE", " ">> \o Join([i \in 1..Len(parts) |-> parts[i].sql], SP),
          params |-> Flatten([i \in 1..Len(parts) |-> parts[i].params])]

\* buildWhereSql over a given condition list.
whereSqlOf(conditions, mode) ==
    whereClause([i \in 1..Len(conditions) |->
                    conditionSql(conditions[i], conditionPrefix(conditions[i], i),
                                 escapeIdentifier(conditions[i].column), mode)])

buildWhereSql(mode) == whereSqlOf(whereConditions, mode)

joinSql(condition) ==
    <<IF condition.type = "LEFT" THEN "LEFT JOIN" ELSE "JOIN", " ">>
    \o escapeIdentifier(condition.table) \o <<" ", "ON", " ">>
    \o escapeIdentifier(condition.left) \o <<" ", condition.operator, " ">>
    \o escapeIdentifier(condition.right)

buildJoinSql == Join([i \in 1..Len(joinConditions) |-> joinSql(joinConditions[i])], SP)

\* One entry of the column list of toSql().
jsonField(column, f) ==
    <<"'">> \o f \o <<"'", ",", " ">> \o column \o <<"->", "'">> \o f \o <<"'">>

jsonFields(fields, column) ==
    Join([i \in 1..Len(fields) |-> jsonField(column, fields[i])], COMMA)

columnSql(c) ==
    IF ~c.json THEN escapeIdentifier(Ident(c.column))
    ELSE <<"jsonb_build_object", "(">>
         \o jsonFields(c.fields, escapeIdentifier(Ident(c.column)))
         \o <<")", " ", "AS", " ">>
         \o escapeIdentifier(Ident(IF c.alias # <<>> THEN c.alias ELSE c.column))

\* this.selectColumns.map(...).join(',') || '*'
columnList(cols) == IF cols = <<>> THEN <<"*">> ELSE cols

selectSql(columns) ==
    columnList(Join([i \in 1..Len(columns) |-> columnSql(columns[i])], COMMA))

orderSql(condition) ==
    IF condition.type = "raw" THEN condition.sql
    ELSE escapeIdentifier(condition.column) \o <<" ", condition.direction>>

orderParams(condition) ==
    IF condition.type = "raw" THEN condition.params ELSE <<>>

orderByClause ==
    IF Len(orderByConditions) > 0
    THEN <<<<"ORDER BY">>,
           Join([i \in 1..Len(orderByConditions) |-> orderSql(orderByConditions[i])],
                COMMA)>>
    ELSE <<>>

orderByParams ==
    Flatten([i \in 1..Len(orderByConditions) |-> orderParams(orderByConditions[i])])

\* if (joinSql) sql.push(joinSql)
joinClause(joins) == IF joins # <<>> THEN <<joins>> ELSE <<>>

limitClause(lim) == IF Truthy(lim) THEN <<<<"LIMIT", " ", "?">>>> ELSE <<>>
limitParams(lim) == IF Truthy(lim) THEN <<lim>> ELSE <<>>
offsetClause(off) == IF Truthy(off) THEN <<<<"OFFSET", " ", "?">>>> ELSE <<>>
offsetParams(off) == IF Truthy(off) THEN <<off>> ELSE <<>>

\* The parts toSql() pushes, in the order it pushes them.
clauses(cols, whereSql, lim) ==
    <<<<"SELECT">>, cols, <<"FROM">>, escapeIdentifier(table)>>
    \o joinClause(buildJoinSql) \o <<whereSql>> \o orderByClause
    \o limitClause(lim) \o offsetClause(offsetValue)

\* (mutant) the limit is pushed before the orderByRaw parameters
collectParamsLimitFirst(whereParams, lim) ==
    whereParams \o limitParams(lim) \o orderByParams \o offsetParams(offsetValue)

\* The parameters toSql() pushes, in the order it pushes them.
collectParams(whereParams, lim) ==
    whereParams \o orderByParams \o limitParams(lim) \o offsetParams(offsetValue)

\* The {sql, params} toSql() assembles from the column list and the where clause w.
assemble(cols, w, lim) ==
    [ok |-> w.ok, sql |-> Join(clauses(cols, w.sql, lim), SP),
     params |-> collectParams(w.params, lim)]

\* toSql() of a builder whose selected columns are columns and whose limit is lim
\* (first() and pluck() set these before they compile).
compile(columns, lim) == assemble(selectSql(columns), buildWhereSql("query"), lim)

-----------------------------------------------------------------------------
(* query-builder.ts: terminal operations.  client.raw is the executor; a   *)
(* terminal operation records the call it makes in last.raw.               *)

\* (mutant) toSql() hands what it compiled to the executor
returnedThroughExecutor(op, c) ==
    IF c.ok THEN Outcome(op, "", <<[sql |-> c.sql, params |-> c.params]>>, c.sql, c.params)
    ELSE Threw(op, "TypeError")

returned(op, c) ==
    IF c.ok THEN Outcome(op, "", <<>>, c.sql, c.params) ELSE Threw(op, "TypeError")

executed(op, c) ==
    IF c.ok THEN Executed(op, c.sql, c.params) ELSE Threw(op, "TypeError")

\* (mutant) toSql() that consumes the limit it compiled
toSqlConsumingLimit ==
    /\ last' = returned("toSql", compile(selectColumns, limitValue))
    /\ limitValue' = Undefined
    /\ UNCHANGED <<selectColumns, whereConditions, offsetValue, orderByConditions,
                   joinConditions, args, calls, schema>>

toSql ==
    /\ last' = returned("toSql", compile(selectColumns, limitValue))
    /\ UNCHANGED <<builder, args, calls, schema>>

then ==
    /\ last' = executed("then", compile(selectColumns, limitValue))
    /\ UNCHANGED <<builder, args, calls, schema>>

first ==
    /\ limitValue' = Num(1)
    /\ last' = executed("first", compile(selectColumns, Num(1)))
    /\ UNCHANGED <<selectColumns, whereConditions, offsetValue, orderByConditions,
                   joinConditions, args, calls, schema>>

\* (mutant) count() keeps the ORDER BY clause and its parameters
countSqlOrdered(w) ==
    [ok |-> w.ok,
     sql |-> Join(<<<<"SELECT COUNT(*) AS count">>, <<"FROM">>, escapeIdentifier(table)>>
                  \o joinClause(buildJoinSql) \o <<w.sql>> \o orderByClause, SP),
     params |-> w.params \o orderByParams]

countSql(w) ==
    [ok |-> w.ok,
     sql |-> Join(<<<<"SELECT COUNT(*) AS count">>, <<"FROM">>, escapeIdentifier(table)>>
                  \o joinClause(buildJoinSql) \o <<w.sql>>, SP),
     params |-> w.params]

count ==
    /\ last' = executed("count", countSql(buildWhereSql("query")))
    /\ UNCHANGED <<builder, args, calls, schema>>

pluck(column) ==
    /\ selectColumns' = <<PlainColumn(column)>>
    /\ last' = executed("pluck", compile(<<PlainColumn(column)>>, limitValue))
    /\ UNCHANGED <<whereConditions, limitValue, offsetValue, orderByConditions,
                   joinConditions, args, calls, schema>>

\* A row object: the sequence of its [k, v] entries in key order.
Keys(row) == [i \in 1..Len(row) |-> row[i].k]
Values(row) == [i \in 1..Len(row) |-> row[i].v]

escapeName(cs) == escapeIdentifier(Ident(cs))

escapeNames(names) == Join([i \in 1..Len(names) |-> escapeName(names[i])], COMMA)

returningSql(returning) ==
    IF Len(returning) > 0 THEN <<<<"RETURNING">>, escapeNames(returning)>> ELSE <<>>

setSql(column) == escapeName(column) \o <<" ", "=", " ", "?">>

setList(columns) == Join([i \in 1..Len(columns) |-> setSql(columns[i])], COMMA)

\* update() once buildWhereSql('update') returned w.
updateOutcome(values, returning, w) ==
    IF w.sql = <<>> THEN Threw("update", "Missing where conditions")
    ELSE Executed("update",
                  Join(<<<<"UPDATE">>, escapeIdentifier(table), <<"SET">>,
                         setList(Keys(values)), w.sql>> \o returningSql(returning), SP),
                  Values(values) \o w.params)

update(values, returning) ==
    /\ last' = updateOutcome(values, returning, buildWhereSql("update"))
    /\ UNCHANGED <<builder, args, calls, schema>>

\* delete() once buildWhereSql() returned w (or threw).
deleteOutcome(w) ==
    IF ~w.ok THEN Threw("delete", "TypeError")
    ELSE IF w.sql = <<>> THEN Threw("delete", "Missing where conditions")
    ELSE Executed("delete", Join(<<<<"DELETE FROM">>, escapeIdentifier(table), w.sql>>, SP),
                  w.params)

delete ==
    /\ last' = deleteOutcome(buildWhereSql("query"))
    /\ UNCHANGED <<builder, args, calls, schema>>

\* Array.isArray(values) ? values : [values]
valuesArray(values) == values.rows

\* `(${Object.keys(v).map(() => '?').join(',')})`
tupleSql(row) == <<"(">> \o Placeholders(Len(Keys(row))) \o <<")">>

tuplesSql(rows) == Join([r \in 1..Len(rows) |-> tupleSql(rows[r])], COMMA)

\* valuesArray.map(v => Object.values(v)).flat()
rowParams(rows) == Flatten([r \in 1..Len(rows) |-> Values(rows[r])])

insertSql(rows, returning) ==
    Join(<<<<"INSERT INTO">>, escapeIdentifier(table), <<"(">>, escapeNames(Keys(rows[1])),
           <<") VALUES">>, tuplesSql(rows)>> \o returningSql(returning), SP)

insert(values, returning) ==
    /\ last' = Executed("insert", insertSql(valuesArray(values), returning),
                        rowParams(valuesArray(values)))
    /\ args' = Args(values, <<>>, <<>>, FALSE, returning)
    /\ UNCHANGED <<builder, calls, schema>>

\* Array.prototype.includes on a list of column names.
IncludesName(names, c) == \E i \in 1..Len(names) : names[i] = c

\* (mutant) the filter of upsert without its test on options.conflict
updateColumnsWithConflict(columns, conflict, updates, hasUpdate) ==
    SelectSeq(columns, LAMBDA c : hasUpdate => IncludesName(updates, c))

\* The filter of upsert over the first row's keys.
updateColumns(columns, conflict, updates, hasUpdate) ==
    SelectSeq(columns,
              LAMBDA c : ~IncludesName(conflict, c) /\ (hasUpdate => IncludesName(updates, c)))

excludedSql(column) ==
    escapeName(column) \o <<" ", "=", " ", "EXCLUDED.">> \o escapeName(column)

excludedList(columns) ==
    Join([i \in 1..Len(columns) |-> excludedSql(columns[i])], COMMA)

\* options.returning?.length ? `RETURNING ${...}` : ''
upsertReturning(returning) ==
    IF Len(returning) > 0 THEN <<"RETURNING", " ">> \o escapeNames(returning) ELSE <<>>

NonEmpty(part) == part # <<>>

\* The parts of the upsert statement, before .filter(Boolean).
upsertParts(rows, conflict, setColumns, returning) ==
    <<<<"INSERT INTO">>, escapeIdentifier(table), <<"(">>, escapeNames(Keys(rows[1])),
      <<") VALUES">>, tuplesSql(rows), <<"ON CONFLICT">>,
      <<"(">> \o escapeNames(conflict) \o <<")">>, <<"DO UPDATE SET">>,
      excludedList(setColumns), upsertReturning(returning)>>

upsertSql(rows, conflict, updates, hasUpdate, returning) ==
    Join(SelectSeq(upsertParts(rows, conflict,
                               updateColumns(Keys(rows[1]), conflict, updates, hasUpdate),
                               returning),
                   NonEmpty), SP)

upsert(values, conflict, updates, hasUpdate, returning) ==
    /\ last' = Executed("upsert",
                        upsertSql(valuesArray(values), conflict, updates, hasUpdate, returning),
                        rowParams(valuesArray(values)))
    /\ args' = Args(values, conflict, updates, hasUpdate, returning)
    /\ UNCHANGED <<builder, calls, schema>>

-----------------------------------------------------------------------------
(* The objects after construction.                                         *)

\* No TableBuilder exists: no createTable / alterTable callback is running.
NoBuilder ==
    [tableName |-> <<>>, mode |-> "none", columns |-> <<>>, indices |-> <<>>,
     operations |-> <<>>, raws |-> <<>>, definition |-> NoIdent]

\* The database: the calls of postgres.begin so far (the template strings of
\* the batch and how the transaction ended), the live tables (a map from table
\* name to the [name, type, nullable] columns) and the rows of
\* typed_pg_migrations in the order they were inserted.
EmptyDatabase == [begun |-> <<>>, tables |-> <<>>, migrations |-> <<>>]

\* An invocation of migrate() or up() between its awaits: the method, the
\* await it is at, and its locals (files, the rows its SELECT returned, the
\* index of the file it is at, the changes of its SchemaBuilder).
NotInvoked ==
    [op |-> "none", at |-> "idle", files |-> <<>>, migrations |-> <<>>, i |-> 0,
     entries |-> <<>>]
Invokers == {1, 2}

Init ==
    /\ selectColumns = <<>>
    /\ whereConditions = <<>>
    /\ limitValue = Undefined
    /\ offsetValue = Undefined
    /\ orderByConditions = <<>>
    /\ joinConditions = <<>>
    /\ calls = 0
    /\ args = NoArgs
    /\ last = Configured("new")
    /\ changes = <<>>
    /\ tableBuilder = NoBuilder
    /\ postgres = EmptyDatabase
    /\ folder = <<>>
    /\ running = [p \in Invokers |-> NotInvoked]

-----------------------------------------------------------------------------
(* Spec: one builder, at most MaxCalls configuration calls on it in any    *)
(* order, and toSql() and the reading terminal operations at any point.    *)

MaxCalls == 3

colA == <<"a">>
colB == <<"t", ".", "b">>
SelectInputs ==
    {<<>>, <<PlainColumn(colB), JsonSelectField(<<"d">>, <<<<"e">>>>, <<>>)>>}
WhereInputs == {<<Num(1), Undefined>>, <<Str("IN"), Arr(<<1, 2>>)>>}
OrWhereInputs == {<<Str("IS NULL"), Undefined>>, <<Str("IN"), Num(1)>>}
RawWhere == <<"x", ">", "?">>
RawOrderBy == <<"y", "-", "?">>
LimitInputs == {Num(0), Num(5)}
OffsetInputs == {Num(0), Num(3)}

Select == calls < MaxCalls /\ \E columns \in SelectInputs : select(columns)
Where == calls < MaxCalls /\ \E i \in WhereInputs : where(Ident(colA), i[1], i[2])
OrWhere == calls < MaxCalls /\ \E i \in OrWhereInputs : orWhere(Ident(colA), i[1], i[2])
WhereRaw == calls < MaxCalls /\ whereRaw(RawWhere, <<Num(7)>>)
OrWhereRaw == calls < MaxCalls /\ orWhereRaw(RawWhere, <<Num(8)>>)
Limit == calls < MaxCalls /\ \E n \in LimitInputs : limit(n)
Offset == calls < MaxCalls /\ \E n \in OffsetInputs : offset(n)
OrderBy == calls < MaxCalls /\ orderBy(Ident(colA), Str("DESC"))
OrderByRaw == calls < MaxCalls /\ orderByRaw(RawOrderBy, <<Num(9)>>)
InnerJoin == calls < MaxCalls /\ join(Ident(<<"u">>), Ident(colA), Ident(colB), NoIdent)
LeftJoin ==
    calls < MaxCalls /\ leftJoin(Ident(<<"u">>), Ident(colA), Ident(<<"<">>), Ident(colB))
ToSql == toSql
Then == then
First == first
Count == count
Pluck == pluck(colA)

Next ==
    \/ Select \/ Where \/ OrWhere \/ WhereRaw \/ OrWhereRaw
    \/ Limit \/ Offset \/ OrderBy \/ OrderByRaw \/ InnerJoin \/ LeftJoin
    \/ ToSql \/ Then \/ First \/ Count \/ Pluck

Spec == Init /\ [][Next]_vars

-----------------------------------------------------------------------------
(* SpecValidate: the calls that validate an argument (where, orWhere, join, *)
(* leftJoin, orderBy), each with well-formed and ill-formed arguments, at   *)
(* most MaxChecked of them on one builder.                                  *)

MaxChecked == 2

CheckedOperands ==
    {Num(1), Undefined, Arr(<<1, 2>>), Str("bogus"), Str("<"), Str("IN"), Str("IS NULL")}
CheckedValues == {Undefined, Num(5), Arr(<<1>>)}
OrCheckedOperands == {Str("@>"), Str("NOT IN"), Str("like")}
OrCheckedValues == {Undefined, Obj(1)}
CheckedJoins ==
    {<<Ident(colB), NoIdent>>, <<Ident(<<"<=">>), Ident(colB)>>,
     <<Ident(<<"IN">>), Ident(colB)>>, <<rawSql(<<"=">>), Ident(colB)>>}
CheckedLeftJoins ==
    {<<rawSql(colB), NoIdent>>, <<Ident(<<"!=">>), rawSql(colB)>>,
     <<Ident(<<"L", "I", "K", "E">>), Ident(colB)>>}
CheckedDirections == {Undefined, Str("ASC"), Str("DESC"), Str("desc"), Str("UP"), Num(1)}

CheckedWhere ==
    /\ calls < MaxChecked
    /\ \E o \in CheckedOperands, v \in CheckedValues : where(Ident(colA), o, v)

CheckedOrWhere ==
    /\ calls < MaxChecked
    /\ \E o \in OrCheckedOperands, v \in OrCheckedValues : orWhere(Ident(colA), o, v)

CheckedJoin ==
    /\ calls < MaxChecked
    /\ \E j \in CheckedJoins : join(Ident(<<"u">>), Ident(colA), j[1], j[2])

CheckedLeftJoin ==
    /\ calls < MaxChecked
    /\ \E j \in CheckedLeftJoins : leftJoin(Ident(<<"u">>), Ident(colA), j[1], j[2])

CheckedOrderBy ==
    /\ calls < MaxChecked
    /\ \E d \in CheckedDirections : orderBy(Ident(colA), d)

NextValidate ==
    \/ CheckedWhere \/ CheckedOrWhere \/ CheckedJoin \/ CheckedLeftJoin \/ CheckedOrderBy

SpecValidate == Init /\ [][NextValidate]_vars

-----------------------------------------------------------------------------
(* SpecWhere: at most MaxConds conditions accumulated through where,        *)
(* orWhere, whereRaw and orWhereRaw, and the operations that compile them   *)
(* (toSql, count, update, delete) at any point.                             *)

MaxConds == 3

CondInputs ==
    {<<Num(1), Undefined>>, <<Str("IN"), Arr(<<1, 2>>)>>, <<Str("IN"), Num(5)>>,
     <<Str("IN"), Arr(<<>>)>>}
OrCondInputs == {<<Str("IS NULL"), Undefined>>, <<Str("NOT IN"), Arr(<<3>>)>>}
UpdateValues == <<[k |-> colA, v |-> Num(4)]>>
ReturningInputs == {<<>>, <<colB>>}

CondWhere == calls < MaxConds /\ \E i \in CondInputs : where(Ident(colA), i[1], i[2])
CondOrWhere == calls < MaxConds /\ \E i \in OrCondInputs : orWhere(Ident(colB), i[1], i[2])
CondWhereRaw == calls < MaxConds /\ whereRaw(RawWhere, <<Num(7)>>)
CondOrWhereRaw == calls < MaxConds /\ orWhereRaw(RawWhere, <<Num(8)>>)
Update == \E returning \in ReturningInputs : update(UpdateValues, returning)
Delete == delete

NextWhere ==
    \/ CondWhere \/ CondOrWhere \/ CondWhereRaw \/ CondOrWhereRaw
    \/ ToSql \/ Count \/ Update \/ Delete

SpecWhere == Init /\ [][NextWhere]_vars

-----------------------------------------------------------------------------
(* SpecMutation: insert and upsert calls, with one row or an array of at    *)
(* most MaxRows rows that all have the keys of the first row, in any key    *)
(* order.                                                                   *)

MaxRows == 2

nameB == <<"b">>
nameC == <<"c">>
Entry(k, v) == [k |-> k, v |-> Num(v)]
RowInputs ==
    {<<Entry(colA, 1), Entry(nameB, 2), Entry(nameC, 3)>>,
     <<Entry(colA, 4), Entry(nameB, 5), Entry(nameC, 6)>>,
     <<Entry(nameC, 7), Entry(colA, 8), Entry(nameB, 9)>>,
     <<Entry(nameB, 1)>>}

KeySet(row) == {row[i].k : i \in 1..Len(row)}

RowLists ==
    {rows \in UNION {[1..n -> RowInputs] : n \in 1..MaxRows} :
        \A r \in 1..Len(rows) : KeySet(rows[r]) = KeySet(rows[1])}

ValuesInputs == {One(row) : row \in RowInputs} \cup {Many(rows) : rows \in RowLists}
ConflictInputs == {<<colA>>, <<nameB, colA>>}
\* options.update: absent, or a list of columns
UpdateInputs == {<<FALSE, <<>>>>, <<TRUE, <<nameB>>>>, <<TRUE, <<nameC, colA>>>>}
MutationReturning == {<<>>, <<<<"*">>>>}

Insert == \E values \in ValuesInputs, returning \in MutationReturning : insert(values, returning)

Upsert ==
    \E values \in ValuesInputs, conflict \in ConflictInputs, u \in UpdateInputs,
       returning \in MutationReturning :
        upsert(values, conflict, u[2], u[1], returning)

NextMutation == Insert \/ Upsert

SpecMutation == Init /\ [][NextMutation]_vars

-----------------------------------------------------------------------------
(* SpecEscape: select() of a column, or of one JSON field of a column, whose *)
(* name is any string of at most MaxNameLen characters of NameChars, at most *)
(* MaxSelects times, and toSql() at any point.                               *)

MaxNameLen == 2
MaxSelects == 2

NameChars == {"a", "\"", "'", ".", "*"}
Names == UNION {[1..n -> NameChars] : n \in 1..MaxNameLen}
colD == <<"d">>

SelectNamed ==
    calls < MaxSelects /\ \E name \in Names : select(<<PlainColumn(name)>>)

SelectJsonField ==
    /\ calls < MaxSelects
    /\ \E field \in Names : select(<<JsonSelectField(colD, <<field>>, <<>>)>>)

NextEscape == SelectNamed \/ SelectJsonField \/ ToSql

SpecEscape == Init /\ [][NextEscape]_vars

-----------------------------------------------------------------------------
(* SpecCalls: every method of the builder, each with one argument list, at  *)
(* most MaxInert configuration calls and any terminal method at any point.  *)

MaxInert == 2

OneRow == <<Entry(colA, 1), Entry(nameB, 2)>>

CallSelect == calls < MaxInert /\ select(<<PlainColumn(colB)>>)
CallWhere == calls < MaxInert /\ where(Ident(colA), Str("IN"), Arr(<<1, 2>>))
CallOrWhere == calls < MaxInert /\ orWhere(Ident(colA), Str("IN"), Num(1))
CallWhereRaw == calls < MaxInert /\ whereRaw(RawWhere, <<Num(7)>>)
CallOrWhereRaw == calls < MaxInert /\ orWhereRaw(RawWhere, <<Num(8)>>)
CallLimit == calls < MaxInert /\ limit(Num(5))
CallOffset == calls < MaxInert /\ offset(Num(3))
CallOrderBy == calls < MaxInert /\ \E d \in {Str("DESC"), Str("UP")} : orderBy(Ident(colA), d)
CallOrderByRaw == calls < MaxInert /\ orderByRaw(RawOrderBy, <<Num(9)>>)
CallJoin == calls < MaxInert /\ join(Ident(<<"u">>), Ident(colA), Ident(colB), NoIdent)
CallLeftJoin ==
    calls < MaxInert /\ leftJoin(Ident(<<"u">>), Ident(colA), Ident(<<"<">>), Ident(colB))
CallInsert == insert(One(OneRow), <<>>)
CallUpsert == upsert(One(OneRow), <<colA>>, <<>>, FALSE, <<>>)

NextCalls ==
    \/ CallSelect \/ CallWhere \/ CallOrWhere \/ CallWhereRaw \/ CallOrWhereRaw
    \/ CallLimit \/ CallOffset \/ CallOrderBy \/ CallOrderByRaw \/ CallJoin \/ CallLeftJoin
    \/ ToSql \/ Then \/ First \/ Count \/ Pluck \/ Update \/ Delete
    \/ CallInsert \/ CallUpsert

SpecCalls == Init /\ [][NextCalls]_vars

-----------------------------------------------------------------------------
(* Reading a compiled statement.                                           *)

Keywords == {"SELECT", "FROM", "JOIN", "LEFT JOIN", "WHERE", "ORDER BY", "LIMIT", "OFFSET"}

IsKeyword(atom) == atom \in Keywords

\* The position of a clause in a SELECT statement.
Rank(kw) ==
    CASE kw = "SELECT" -> 1 [] kw = "FROM" -> 2 [] kw \in {"JOIN", "LEFT JOIN"} -> 3
      [] kw = "WHERE" -> 4 [] kw = "ORDER BY" -> 5 [] kw = "LIMIT" -> 6
      [] kw = "OFFSET" -> 7

KeywordsOf(text) == SelectSeq(text, IsKeyword)

Occurs(text, atom) == \E i \in 1..Len(text) : text[i] = atom

\* The index of the first atom of text that is one of stops, or Len(text) + 1.
Cut(text, stops) ==
    IF \E i \in 1..Len(text) : text[i] \in stops
    THEN CHOOSE i \in 1..Len(text) :
            /\ text[i] \in stops
            /\ \A k \in 1..(i - 1) : text[k] \notin stops
    ELSE Len(text) + 1

\* The number of "?" placeholders among text[lo..hi-1].
PlaceholdersIn(text, lo, hi) == Cardinality({i \in lo..(hi - 1) : text[i] = "?"})

\* The parameters a where condition declares.
DeclaredParams(c) ==
    IF c.kind = "raw" THEN c.params
    ELSE IF c.operator \in NullOperators THEN <<>>
    ELSE IF c.operator \in ArrayOperators
    THEN [i \in 1..Len(c.value.a) |-> Num(c.value.a[i])]
    ELSE <<c.value>>

RECURSIVE DeclaredWhereParams(_)
DeclaredWhereParams(conds) ==
    IF conds = <<>> THEN <<>>
    ELSE DeclaredParams(Head(conds)) \o DeclaredWhereParams(Tail(conds))

RECURSIVE DeclaredOrderParams(_)
DeclaredOrderParams(orders) ==
    IF orders = <<>> THEN <<>>
    ELSE (IF Head(orders).type = "raw" THEN Head(orders).params ELSE <<>>)
         \o DeclaredOrderParams(Tail(orders))

ToSqlReturned == last.op = "toSql" /\ last.error = ""

-----------------------------------------------------------------------------
\* C2: whenever toSql() returns, the clause keywords of its text appear in the
\* order SELECT, FROM, JOINs, WHERE, ORDER BY, LIMIT, OFFSET (each at most once,
\* JOINs excepted), whatever order the configuration calls came in, and its
\* parameter list is the where parameters, then the orderByRaw parameters, then
\* the limit, then the offset, with as many "?" in each clause as the clause
\* has parameters.
ClauseOrder(text) ==
    LET ks == KeywordsOf(text)
    IN  /\ Len(ks) >= 2 /\ ks[1] = "SELECT" /\ ks[2] = "FROM"
        /\ \A i \in 1..(Len(ks) - 1) :
              \/ Rank(ks[i]) < Rank(ks[i + 1])
              \/ Rank(ks[i]) = 3 /\ Rank(ks[i + 1]) = 3

ParamsLineUp(text, params) ==
    LET wp == DeclaredWhereParams(whereConditions)
        op == DeclaredOrderParams(orderByConditions)
        lp == IF Occurs(text, "LIMIT") THEN <<limitValue>> ELSE <<>>
        fp == IF Occurs(text, "OFFSET") THEN <<offsetValue>> ELSE <<>>
        o == Cut(text, {"ORDER BY", "LIMIT", "OFFSET"})
        l == Cut(text, {"LIMIT", "OFFSET"})
        f == Cut(text, {"OFFSET"})
    IN  /\ params = wp \o op \o lp \o fp
        /\ PlaceholdersIn(text, 1, o) = Len(wp)
        /\ PlaceholdersIn(text, o, l) = Len(op)
        /\ PlaceholdersIn(text, l, f) = Len(lp)
        /\ PlaceholdersIn(text, f, Len(text) + 1) = Len(fp)

C2_ClauseAndParamOrder ==
    ToSqlReturned => ClauseOrder(last.sql) /\ ParamsLineUp(last.sql, last.params)

\* A compiled statement with an expanded IN list, an orderByRaw
\* parameter, a limit and an offset.
C2_Witness ==
    /\ ToSqlReturned
    /\ KeywordsOf(last.sql) = <<"SELECT", "FROM", "WHERE", "ORDER BY", "LIMIT", "OFFSET">>
    /\ last.params = <<Num(1), Num(2), Num(9), Num(1), Num(3)>>

-----------------------------------------------------------------------------
\* C9: count() makes one executor call (whenever the where list compiles; it
\* throws and makes none when toSql() throws too).  The statement is
\* SELECT COUNT(*) AS count followed by the FROM, JOIN and WHERE clauses toSql()
\* emits for the same builder; its parameters are the where parameters; the
\* selected columns, the order specs and their parameters, the limit and the
\* offset do not appear in it.
TrimRight(text) ==
    SubSeq(text, 1, Len(text) - LeadingRun(Reverse(text), " "))

\* The FROM, JOIN and WHERE clauses of a statement.
FromJoinWhere(text) ==
    TrimRight(SubSeq(text, Cut(text, {"FROM"}),
                     Cut(text, {"ORDER BY", "LIMIT", "OFFSET"}) - 1))

CountStatement(st, compiled) ==
    /\ SubSeq(st.sql, 1, Cut(st.sql, {"FROM"}) - 1) = <<"SELECT COUNT(*) AS count", " ">>
    /\ FromJoinWhere(st.sql) = FromJoinWhere(compiled.sql)
    /\ Cut(st.sql, {"ORDER BY", "LIMIT", "OFFSET"}) = Len(st.sql) + 1
    /\ st.params = DeclaredWhereParams(whereConditions)
    /\ PlaceholdersIn(st.sql, 1, Len(st.sql) + 1) = Len(st.params)

C9_CountSharesFromJoinWhere ==
    last.op = "count" =>
        IF last.error = ""
        THEN /\ Len(last.raw) = 1
             /\ CountStatement(last.raw[1], compile(selectColumns, limitValue))
        ELSE last.raw = <<>> /\ ~compile(selectColumns, limitValue).ok

\* count() on a builder with a selected column, a where condition, an
\* orderByRaw parameter, a limit and an offset.
C9_Witness ==
    /\ last.op = "count" /\ Len(last.raw) = 1
    /\ selectColumns # <<>> /\ whereConditions # <<>>
    /\ \E i \in 1..Len(orderByConditions) : orderByConditions[i].type = "raw"
    /\ limitValue = Num(1) /\ offsetValue = Num(3)

-----------------------------------------------------------------------------
\* C10: limit() and offset() store the value they were given, replacing the
\* earlier one; toSql() emits LIMIT ? (OFFSET ?) once, with the stored value as
\* its parameter, if and only if the stored value is a non-zero number; and a
\* builder whose limit is 0 compiles to the SQL and parameters of the same
\* builder with no limit set.
StoredNonZero(v) == v.t = "number" /\ v.n # 0

EmitsOnce(text, kw) == Cardinality({i \in 1..Len(text) : text[i] = kw}) = 1

\* The parameter bound to the placeholder that follows kw.
ParamAfter(text, params, kw) ==
    params[PlaceholdersIn(text, 1, Cut(text, {kw})) + 1]

LimitEmitted(text, params, kw, v) ==
    /\ Occurs(text, kw) <=> StoredNonZero(v)
    /\ Occurs(text, kw) => EmitsOnce(text, kw) /\ ParamAfter(text, params, kw) = v

C10_LimitOffsetLastNonZero ==
    /\ last.op = "limit" => limitValue = last.arg
    /\ last.op = "offset" => offsetValue = last.arg
    /\ ToSqlReturned =>
          /\ LimitEmitted(last.sql, last.params, "LIMIT", limitValue)
          /\ LimitEmitted(last.sql, last.params, "OFFSET", offsetValue)
          /\ limitValue = Num(0) =>
                /\ last.sql = compile(selectColumns, Undefined).sql
                /\ last.params = compile(selectColumns, Undefined).params

\* toSql() after limit(0) and offset(3), on a builder with a condition.
C10_Witness ==
    /\ ToSqlReturned /\ limitValue = Num(0) /\ offsetValue = Num(3)
    /\ whereConditions # <<>>
    /\ ~Occurs(last.sql, "LIMIT") /\ Occurs(last.sql, "OFFSET")

-----------------------------------------------------------------------------
\* C4: a where/orWhere call given an operator and a value, the operator outside
\* {=, !=, <, <=, >, >=, IN, NOT IN, IS NULL, IS NOT NULL, @>}, a 4-argument
\* join/leftJoin call given an operator outside {=, !=, <, <=, >, >=}, and an
\* orderBy call given a direction outside the accepted directions throws at the
\* call, with its own error, appends nothing to the builder and makes no
\* executor call; and every stored condition operator, join operator and order
\* direction belongs to its set.  The accepted directions are ASC, DESC, asc
\* and desc (C4_InvalidArgumentsRejected); with ASC and DESC alone, as the
\* claim has it, the statement fails (C4_DirectionsUpperCaseOnly).
ClaimedOperators ==
    {"=", "!=", "<", "<=", ">", ">=", "IN", "NOT IN", "IS NULL", "IS NOT NULL", "@>"}
ClaimedJoinOperators == {"=", "!=", "<", "<=", ">", ">="}
UpperCaseDirections == {"ASC", "DESC"}
AcceptedDirections == {"ASC", "DESC", "asc", "desc"}

IsOneOf(v, set) == v.t = "string" /\ v.s \in set

IsJoinOperator(x) == ~x.raw /\ Len(x.chars) = 1 /\ x.chars[1] \in ClaimedJoinOperators

StoredWithin(directions) ==
    /\ \A i \in 1..Len(whereConditions) :
          whereConditions[i].kind = "column" =>
              whereConditions[i].operator \in ClaimedOperators
    /\ \A i \in 1..Len(joinConditions) :
          joinConditions[i].operator \in ClaimedJoinOperators
    /\ \A i \in 1..Len(orderByConditions) :
          orderByConditions[i].type = "column" =>
              orderByConditions[i].direction \in directions

\* The step threw error from op, changed nothing and called nothing.
Rejected(op, error) ==
    /\ last'.op = op /\ last'.error = error /\ last'.raw = <<>>
    /\ UNCHANGED builder

RejectsInvalid(directions) ==
    /\ \A o \in CheckedOperands, v \in CheckedValues :
          (where(Ident(colA), o, v) /\ v.t # "undefined" /\ ~IsOneOf(o, ClaimedOperators))
              => Rejected("where", "Invalid operator")
    /\ \A o \in OrCheckedOperands, v \in OrCheckedValues :
          (orWhere(Ident(colA), o, v) /\ v.t # "undefined" /\ ~IsOneOf(o, ClaimedOperators))
              => Rejected("orWhere", "Invalid operator")
    /\ \A j \in CheckedJoins :
          (join(Ident(<<"u">>), Ident(colA), j[1], j[2]) /\ j[2].def /\ ~IsJoinOperator(j[1]))
              => Rejected("join", "Invalid join operator")
    /\ \A j \in CheckedLeftJoins :
          (leftJoin(Ident(<<"u">>), Ident(colA), j[1], j[2]) /\ j[2].def
             /\ ~IsJoinOperator(j[1]))
              => Rejected("leftJoin", "Invalid join operator")
    /\ \A d \in CheckedDirections :
          (orderBy(Ident(colA), d) /\ d.t # "undefined" /\ ~IsOneOf(d, directions))
              => Rejected("orderBy", "Invalid order direction")

C4_InvalidArgumentsRejected ==
    [](StoredWithin(AcceptedDirections)) /\ [][RejectsInvalid(AcceptedDirections)]_vars

C4_DirectionsUpperCaseOnly ==
    [](StoredWithin(UpperCaseDirections)) /\ [][RejectsInvalid(UpperCaseDirections)]_vars

\* where('a', 'bogus', 5) throws on a builder that holds orderBy('a', 'desc').
C4_Witness ==
    /\ last.op = "where" /\ last.error = "Invalid operator"
    /\ whereConditions = <<>>
    /\ Len(orderByConditions) = 1 /\ orderByConditions[1].direction = "desc"

-----------------------------------------------------------------------------
\* C5: after any sequence of where/orWhere calls every stored column condition
\* has the value shape of its operator: IN and NOT IN an array, IS NULL and
\* IS NOT NULL no value, every other operator a value that is neither absent
\* nor an array.
ValueShapeOk(c) ==
    IF c.operator \in {"IN", "NOT IN"} THEN c.value.t = "array"
    ELSE IF c.operator \in {"IS NULL", "IS NOT NULL"} THEN c.value.t = "undefined"
    ELSE c.value.t \notin {"undefined", "array"}

C5_ValueShapes ==
    \A i \in 1..Len(whereConditions) :
        whereConditions[i].kind = "column" => ValueShapeOk(whereConditions[i])

-----------------------------------------------------------------------------
\* C1: update() and delete() on a builder with no accumulated condition fail
\* with 'Missing where conditions' and make no executor call; with at least
\* one accumulated condition each of them makes exactly one executor call; and
\* a failed call leaves the builder state as it was.
GuardedByWhere ==
    last.op \in {"update", "delete"} =>
        IF whereConditions = <<>>
        THEN last.error = "Missing where conditions" /\ last.raw = <<>>
        ELSE last.error = "" /\ Len(last.raw) = 1

FailureChangesNothing ==
    (last'.op \in {"update", "delete"} /\ last'.error # "") => UNCHANGED builder

C1_MissingWhereGuard == [](GuardedByWhere) /\ [][FailureChangesNothing]_vars

-----------------------------------------------------------------------------
\* C6: whenever toSql, count, update or delete compiles a non-empty condition
\* list, the WHERE clause is the conditions in declaration order, each after
\* the first preceded by its own tag (AND or OR) and the first by none, and the
\* where parameters are the conditions' parameters in that order; and the list
\* with the tag of its first condition flipped compiles to the same clause and
\* parameters.
ModeOf(op) == IF op = "update" THEN "update" ELSE "query"

\* One condition compiled on its own, without a tag.
Untagged(c, mode) == conditionSql(c, <<>>, escapeIdentifier(c.column), mode)

RECURSIVE FoldedSql(_, _, _)
FoldedSql(conds, mode, tagged) ==
    IF conds = <<>> THEN <<>>
    ELSE (IF tagged THEN <<" ", Head(conds).type, " ">> ELSE <<>>)
         \o Untagged(Head(conds), mode).sql \o FoldedSql(Tail(conds), mode, TRUE)

RECURSIVE FoldedParams(_, _)
FoldedParams(conds, mode) ==
    IF conds = <<>> THEN <<>>
    ELSE Untagged(Head(conds), mode).params \o FoldedParams(Tail(conds), mode)

\* The WHERE clause of a statement.
WhereOf(text) ==
    TrimRight(SubSeq(text, Cut(text, {"WHERE"}),
                     Cut(text, {"ORDER BY", "LIMIT", "OFFSET", "RETURNING"}) - 1))

\* The last n elements of a sequence.
LastN(xs, n) == SubSeq(xs, Len(xs) - n + 1, Len(xs))

FoldsInOrder(op, sql, params) ==
    /\ WhereOf(sql) = <<"WHERE", " ">> \o FoldedSql(whereConditions, ModeOf(op), FALSE)
    /\ Len(params) >= Len(FoldedParams(whereConditions, ModeOf(op)))
    /\ LastN(params, Len(FoldedParams(whereConditions, ModeOf(op))))
           = FoldedParams(whereConditions, ModeOf(op))

FlipFirst(conds) ==
    [conds EXCEPT ![1].type = IF @ = "AND" THEN "OR" ELSE "AND"]

C6_WhereFoldsTagsInOrder ==
    whereConditions # <<>> =>
        /\ ToSqlReturned => FoldsInOrder("toSql", last.sql, last.params)
        /\ (last.op \in {"count", "update", "delete"} /\ last.error = "") =>
               FoldsInOrder(last.op, last.raw[1].sql, last.raw[1].params)
        /\ \A mode \in {"query", "update"} :
               whereSqlOf(FlipFirst(whereConditions), mode) = whereSqlOf(whereConditions, mode)

\* delete() on orWhere('t.b', 'IS NULL'), whereRaw('x>?', 7), orWhereRaw('x>?', 8).
C6_Witness ==
    /\ last.op = "delete" /\ Len(last.raw) = 1
    /\ Len(whereConditions) = 3
    /\ whereConditions[1].type = "OR" /\ whereConditions[1].kind = "column"
    /\ whereConditions[2].type = "AND" /\ whereConditions[3].type = "OR"
    /\ last.raw[1].params = <<Num(7), Num(8)>>

-----------------------------------------------------------------------------
(* Reading an INSERT statement.                                            *)

TrimLeft(text) == SubSeq(text, LeadingRun(text, " ") + 1, Len(text))

\* The text between the keyword from and the first of stops (or the end).
Between(text, from, stops) ==
    TrimLeft(TrimRight(SubSeq(text, Cut(text, {from}) + 1, Cut(text, stops) - 1)))

ColumnListOf(text) == Between(text, "(", {") VALUES"})
TuplesOf(text) == Between(text, ") VALUES", {"ON CONFLICT", "RETURNING"})
ConflictTargetOf(text) == Between(text, "ON CONFLICT", {"DO UPDATE SET"})
SetListOf(text) == Between(text, "DO UPDATE SET", {"RETURNING"})

\* row[column] of a row object.
ValueFor(row, column) == row[CHOOSE i \in 1..Len(row) : row[i].k = column].v

-----------------------------------------------------------------------------
\* C7: in the statement of upsert(values, {conflict, update?}) the
\* DO UPDATE SET list is the first row's columns c that are not in conflict and,
\* when update is given, are in update, in first-row key order, each as
\* c = EXCLUDED.c; no conflict column is assigned in it; and the ON CONFLICT
\* target is the conflict columns in the given order.
SetColumns(a) ==
    SelectSeq(Keys(a.values.rows[1]),
              LAMBDA c : /\ \A i \in 1..Len(a.conflict) : a.conflict[i] # c
                         /\ a.hasUpdate => \E i \in 1..Len(a.update) : a.update[i] = c)

Assignment(c) == escapeName(c) \o <<" ", "=", " ", "EXCLUDED.">> \o escapeName(c)

Assignments(columns) == Join([i \in 1..Len(columns) |-> Assignment(columns[i])], COMMA)

C7_UpsertSetList ==
    last.op = "upsert" =>
        /\ Len(last.raw) = 1
        /\ SetListOf(last.raw[1].sql) = Assignments(SetColumns(args))
        /\ \A i \in 1..Len(args.conflict) :
              FirstMatch(SetListOf(last.raw[1].sql),
                         escapeName(args.conflict[i]) \o <<" ", "=">>) = 0
        /\ ConflictTargetOf(last.raw[1].sql)
               = <<"(">> \o escapeNames(args.conflict) \o <<")">>

\* upsert of rows with the keys a, b, c, conflict [a], update [c, a]: SET holds c alone.
C7_Witness ==
    /\ last.op = "upsert" /\ Len(last.raw) = 1
    /\ args.conflict = <<colA>> /\ args.hasUpdate /\ args.update = <<nameC, colA>>
    /\ Len(args.values.rows) = 2
    /\ SetListOf(last.raw[1].sql) = Assignment(nameC)

-----------------------------------------------------------------------------
\* C8: in the statement of insert and upsert the column list is the key list
\* of the first row, there is one placeholder tuple per row, in row order, with
\* one placeholder per column, and the parameter bound at position i of the
\* tuple of row r is r's value for the i-th column of the column list.
ExpectedTuple(n) == <<"(">> \o Join([i \in 1..n |-> <<"?">>], COMMA) \o <<")">>

ExpectedRowParams(row, columns) == [i \in 1..Len(columns) |-> ValueFor(row, columns[i])]

RowsLineUp(st, rows, columns) ==
    /\ ColumnListOf(st.sql) = escapeNames(columns)
    /\ TuplesOf(st.sql) = Join([r \in 1..Len(rows) |-> ExpectedTuple(Len(columns))], COMMA)
    /\ st.params = Flatten([r \in 1..Len(rows) |-> ExpectedRowParams(rows[r], columns)])

C8_RowParamsFollowColumns ==
    last.op \in {"insert", "upsert"} =>
        /\ Len(last.raw) = 1
        /\ RowsLineUp(last.raw[1], args.values.rows, Keys(args.values.rows[1]))

-----------------------------------------------------------------------------
\* C3 (for the column list of toSql): every selected column name appears in
\* the text as escapeIdentifier writes it, and every JSON field name as
\* escapeIdentifier writes it or as escapeValue writes it.
FieldForm(f, form) == IF form = "identifier" THEN escapeName(f) ELSE escapeValueString(f)

EscapedField(column, f, form) ==
    FieldForm(f, form) \o <<",", " ">> \o column \o <<"->">> \o FieldForm(f, form)

EscapedColumn(c, form) ==
    IF ~c.json THEN escapeName(c.column)
    ELSE <<"jsonb_build_object", "(">>
         \o Join([i \in 1..Len(c.fields) |-> EscapedField(escapeName(c.column), c.fields[i], form)],
                 COMMA)
         \o <<")", " ", "AS", " ">> \o escapeName(IF c.alias # <<>> THEN c.alias ELSE c.column)

EscapedColumns(columns, form) ==
    IF columns = <<>> THEN <<"*">>
    ELSE Join([i \in 1..Len(columns) |-> EscapedColumn(columns[i], form)], COMMA)

\* The column list of a SELECT statement.
ColumnsOf(text) == Between(text, "SELECT", {"FROM"})

C3_NamesAppearEscaped ==
    ToSqlReturned =>
        \E form \in {"identifier", "value"} :
            ColumnsOf(last.sql) = EscapedColumns(selectColumns, form)

-----------------------------------------------------------------------------
\* C11: a configuration call (select, where, orWhere, whereRaw, orWhereRaw,
\* join, leftJoin, limit, offset, orderBy, orderByRaw) and toSql make no
\* executor call, whether they return or throw; an executor call is made only by
\* then, first, count, pluck, insert, update, delete and upsert, and each of
\* these makes at most one.
ConfigurationMethods ==
    {"select", "where", "orWhere", "whereRaw", "orWhereRaw", "join", "leftJoin",
     "limit", "offset", "orderBy", "orderByRaw"}
TerminalMethods ==
    {"then", "first", "count", "pluck", "insert", "update", "delete", "upsert"}

C11_ExecutorOnlyOnTerminal ==
    /\ last.op \in ConfigurationMethods \cup TerminalMethods \cup {"toSql", "new"}
    /\ last.op \in ConfigurationMethods \cup {"toSql"} => last.raw = <<>>
    /\ last.raw # <<>> => last.op \in TerminalMethods /\ Len(last.raw) = 1

\* toSql() returned a statement with parameters on a configured builder, and
\* called nothing.
C11_Witness ==
    /\ ToSqlReturned /\ last.raw = <<>>
    /\ Len(whereConditions) = 2 /\ Len(last.params) = 3

-----------------------------------------------------------------------------
(* utils.ts: escapeValue.  A string whose characters matter is Text(cs).   *)

Bool(b) == [t |-> "boolean", n |-> IF b THEN 1 ELSE 0, s |-> "", a |-> <<>>]
Text(cs) == [t |-> "string", n |-> 0, s |-> "", a |-> cs]
RawValue(cs) == [t |-> "raw", n |-> 0, s |-> "", a |-> cs]

DigitAtoms == <<"0", "1", "2", "3", "4", "5", "6", "7", "8", "9">>

\* Number.prototype.toString: the decimal digits of an integer, "-" first.
RECURSIVE digits(_)
digits(n) ==
    IF n < 10 THEN <<DigitAtoms[n + 1]>>
    ELSE digits(n \div 10) \o <<DigitAtoms[(n % 10) + 1]>>

\* The number NaN; every other number of the model is an integer.
NotANumber == [t |-> "number", n |-> 0, s |-> "NaN", a |-> <<>>]

numberToString(value) ==
    IF value = NotANumber THEN <<"NaN">>
    ELSE IF value.n < 0 THEN <<"-">> \o digits(-value.n) ELSE digits(value.n)

\* escapeValue for a raw value, null, a boolean, a number, a string and an
\* array; the Date and object branches and the final throw are reached by no
\* value of these types.
RECURSIVE escapeValue(_)
escapeValue(value) ==
    CASE value.t = "raw" -> value.a
      [] value.t = "null" -> <<"NULL">>
      [] value.t = "boolean" -> IF value.n # 0 THEN <<"TRUE">> ELSE <<"FALSE">>
      [] value.t = "number" -> numberToString(value)
      [] value.t = "string" -> escapeValueString(value.a)
      [] value.t = "array" ->
            <<"ARRAY[">>
            \o Join([i \in 1..Len(value.a) |-> escapeValue(value.a[i])], <<",">>)
            \o <<"]">>

-----------------------------------------------------------------------------
(* schema-builder/table-builder.ts: TableBuilder and ColumnBuilder.  A Map *)
(* is the sequence of its [k, v] entries in insertion order.               *)

MapHas(m, k) == \E i \in 1..Len(m) : m[i].k = k
MapGet(m, k) == m[CHOOSE i \in 1..Len(m) : m[i].k = k].v
\* Map.prototype.set: an existing key keeps its place, a new one goes last.
MapSet(m, k, v) ==
    IF MapHas(m, k)
    THEN [i \in 1..Len(m) |-> IF m[i].k = k THEN [k |-> k, v |-> v] ELSE m[i]]
    ELSE Append(m, [k |-> k, v |-> v])
MapDelete(m, k) == SelectSeq(m, LAMBDA e : e.k # k)

\* const column: ColumnDefinition = { type }
ColumnDefinition(type) ==
    [type |-> type, nullable |-> Undefined, defaultValue |-> Undefined,
     primary |-> Undefined, unique |-> Undefined, check |-> Undefined,
     references |-> Undefined, collate |-> Undefined]

\* this.definition.references = { table, column }
Reference(target, targetColumn) ==
    [t |-> "object", n |-> 0, s |-> "", a |-> <<target, targetColumn>>]

\* { ...column, ...changes }: changes is the sequence of its [k, v] entries.
RECURSIVE Spread(_, _)
Spread(def, changed) ==
    IF changed = <<>> THEN def
    ELSE Spread([def EXCEPT ![Head(changed).k] = Head(changed).v], Tail(changed))

NewTableBuilder(tableName, mode) ==
    [NoBuilder EXCEPT !.tableName = tableName, !.mode = mode]

\* What a TableBuilder method did to the builder b: it returned, or it threw
\* the error before it changed anything.
Returned(b) == [error |-> "", b |-> b]
Thrown(error, b) == [error |-> error, b |-> b]

\* A call of a TableBuilder method on the builder being configured.
Called(op, result) ==
    /\ tableBuilder.mode # "none"
    /\ tableBuilder' = result.b
    /\ last' = IF result.error = "" THEN Configured(op) ELSE Threw(op, result.error)
    /\ calls' = calls + 1
    /\ UNCHANGED <<running, builder, args, folder, changes, postgres>>

\* The object a ColumnBuilder holds is the one stored under `definition`, as
\* long as that entry is neither deleted nor replaced by another object.
Stale(definition, name) == IF definition = Ident(name) THEN NoIdent ELSE definition

column(name, type) ==
    Called("column",
           Returned([tableBuilder EXCEPT
                        !.columns = MapSet(@, name, ColumnDefinition(type)),
                        !.definition = Ident(name)]))

string(name) == column(name, "varchar")
number(name) == column(name, "integer")

\* A ColumnBuilder method: this.definition[field] = value.  A call on an
\* object that is no longer in the map changes nothing the builder can see.
setDefinition(op, field, value) ==
    /\ tableBuilder.definition.def
    /\ LET name == tableBuilder.definition.chars
           def == MapGet(tableBuilder.columns, name)
       IN Called(op, Returned([tableBuilder EXCEPT
                                  !.columns = MapSet(@, name, [def EXCEPT ![field] = value])]))

nullable(isNullable) == setDefinition("nullable", "nullable", isNullable)
defaultTo(value) == setDefinition("defaultTo", "defaultValue", value)
primary == setDefinition("primary", "primary", Bool(TRUE))
unique == setDefinition("unique", "unique", Bool(TRUE))
references(target, targetColumn) ==
    setDefinition("references", "references", Reference(target, targetColumn))

\* (mutant) renameColumn without the create-mode throw
renameColumnOnQueues(b, from, to) ==
    IF ~MapHas(b.columns, from)
    THEN Returned([b EXCEPT !.operations =
                      Append(@, [type |-> "renameColumn", from |-> from, to |-> to])])
    ELSE Returned([b EXCEPT
                      !.columns = MapSet(MapDelete(@, from), to, MapGet(b.columns, from)),
                      !.definition = IF @ = Ident(from) THEN Ident(to) ELSE Stale(@, to)])

renameColumnOn(b, from, to) ==
    IF ~MapHas(b.columns, from)
    THEN IF b.mode = "create"
         THEN Thrown("renameColumn failed: Column does not exist", b)
         ELSE Returned([b EXCEPT !.operations =
                           Append(@, [type |-> "renameColumn", from |-> from, to |-> to])])
    ELSE Returned([b EXCEPT
                      !.columns = MapSet(MapDelete(@, from), to, MapGet(b.columns, from)),
                      !.definition = IF @ = Ident(from) THEN Ident(to) ELSE Stale(@, to)])

renameColumn(from, to) == Called("renameColumn", renameColumnOn(tableBuilder, from, to))

dropColumnOn(b, name) ==
    LET dropped == [b EXCEPT !.columns = MapDelete(@, name),
                             !.definition = Stale(@, name)]
    IN IF b.mode = "create" THEN Returned(dropped)
       ELSE Returned([dropped EXCEPT !.operations =
                         Append(@, [type |-> "dropColumn", name |-> name])])

dropColumn(name) == Called("dropColumn", dropColumnOn(tableBuilder, name))

alterColumnOn(b, name, changed) ==
    IF ~MapHas(b.columns, name)
    THEN IF b.mode = "create"
         THEN Thrown("alterColumn failed: Column does not exist", b)
         ELSE Returned([b EXCEPT !.operations =
                           Append(@, [type |-> "alterColumn", name |-> name,
                                      changes |-> changed])])
    ELSE Returned([b EXCEPT
                      !.columns = MapSet(@, name, Spread(MapGet(b.columns, name), changed)),
                      !.definition = Stale(@, name)])

alterColumn(name, changed) == Called("alterColumn", alterColumnOn(tableBuilder, name, changed))

\* `idx_${this.tableName}_${columns.join('_')}`
indexName(tableName, names) ==
    <<"i", "d", "x", "_">> \o tableName \o <<"_">> \o Join(names, <<"_">>)

\* options is { unique?, indexType? }.
index(names, options) ==
    Called("index",
           Returned([tableBuilder EXCEPT !.indices =
                        MapSet(@, indexName(tableBuilder.tableName, names),
                               [columns |-> names, unique |-> options.unique,
                                indexType |-> options.indexType])]))

dropIndexOn(b, name) ==
    IF MapHas(b.indices, name) THEN Returned([b EXCEPT !.indices = MapDelete(@, name)])
    ELSE IF b.mode = "create" THEN Thrown("dropIndex failed: Index does not exist", b)
    ELSE Returned([b EXCEPT !.operations = Append(@, [type |-> "dropIndex", name |-> name])])

dropIndex(names) ==
    Called("dropIndex", dropIndexOn(tableBuilder, indexName(tableBuilder.tableName, names)))

raw(statement) ==
    Called("raw", Returned([tableBuilder EXCEPT !.raws = Append(@, statement)]))


\* A DDL statement is a sequence of atoms like any SQL text: a keyword or a
\* type the builder writes is one atom, every character of a name is one.
NL == <<"\n">>
escapeText(name) == escapeIdentifier(Ident(name))
alterTablePrefix(b) == <<"ALTER TABLE", " ">> \o escapeText(b.tableName) \o SP

\* `REFERENCES ${references.table}(${references.column})`, names unescaped.
referencesSql(reference) ==
    <<"REFERENCES", " ">> \o reference.a[1] \o <<"(">> \o reference.a[2] \o <<")">>

\* columnToSQL: the parts before .filter(Boolean); check and collate are not
\* among them.
columnParts(name, def) ==
    <<escapeText(name),
      <<def.type>>,
      IF Truthy(def.nullable) THEN <<"NULL">> ELSE <<"NOT NULL">>,
      IF def.defaultValue # Undefined
      THEN <<"DEFAULT", " ">> \o escapeValue(def.defaultValue) \o <<"::", def.type>>
      ELSE <<>>,
      IF Truthy(def.primary) THEN <<"PRIMARY KEY">> ELSE <<>>,
      IF Truthy(def.unique) THEN <<"UNIQUE">> ELSE <<>>,
      IF def.references # Undefined THEN referencesSql(def.references) ELSE <<>>>>

columnToSQL(name, def) == Join(SelectSeq(columnParts(name, def), NonEmpty), SP)

columnDefs(b) ==
    [i \in 1..Len(b.columns) |-> columnToSQL(b.columns[i].k, b.columns[i].v)]

indexParts(b, name, defs) ==
    <<<<"CREATE">>,
      IF Truthy(defs.unique) THEN <<"UNIQUE">> ELSE <<>>,
      <<"INDEX">>,
      escapeText(name),
      <<"ON">>,
      escapeText(b.tableName),
      IF Truthy(defs.indexType) THEN <<"USING", " ", defs.indexType.s>> ELSE <<>>,
      <<"(">>
      \o Join([i \in 1..Len(defs.columns) |-> escapeText(defs.columns[i])], <<",", " ">>)
      \o <<")", ";">>>>

indexToSQL(b, name, defs) == Join(SelectSeq(indexParts(b, name, defs), NonEmpty), SP)

indexDefs(b) ==
    [i \in 1..Len(b.indices) |-> indexToSQL(b, b.indices[i].k, b.indices[i].v)]

alterToSql(b, columnName, key, value) ==
    CASE key = "type" ->
            <<"ALTER COLUMN", " ">> \o escapeText(columnName)
            \o <<" ", "SET DATA TYPE", " ", value, ";">>
      [] key = "nullable" ->
            <<"ALTER COLUMN", " ">> \o escapeText(columnName)
            \o <<" ", IF Truthy(value) THEN "DROP" ELSE "SET", " ", "NOT NULL", ";">>
      [] key = "defaultValue" ->
            <<"ALTER COLUMN", " ">> \o escapeText(columnName)
            \o <<" ", "SET DEFAULT", " ">> \o escapeValue(value) \o <<";">>
      [] key = "primary" ->
            IF Truthy(value)
            THEN <<"ADD PRIMARY KEY", " ", "(">> \o escapeText(columnName) \o <<")">>
            ELSE <<"DROP CONSTRAINT IF EXISTS", " ">>
                 \o escapeText(b.tableName \o <<"_", "p", "k", "e", "y">>) \o <<";">>
      [] key = "unique" ->
            IF Truthy(value)
            THEN <<"ADD UNIQUE", " ", "(">> \o escapeText(columnName) \o <<")">>
            ELSE <<"DROP CONSTRAINT IF EXISTS", " ">>
                 \o escapeText(b.tableName \o <<"_">> \o columnName
                               \o <<"_", "u", "n", "i", "q", "u", "e">>)
                 \o <<";">>
      [] key = "check" -> <<"ADD CHECK", " ", "(">> \o value.a \o <<")", ";">>
      [] key = "references" ->
            <<"ALTER COLUMN", " ">> \o escapeText(columnName)
            \o <<" ", "ADD", " ">> \o referencesSql(value) \o <<";">>
      [] key = "collate" ->
            <<"ALTER COLUMN", " ">> \o escapeText(columnName)
            \o <<" ", "SET COLLATE", " ">> \o value.a \o <<";">>

\* The statements of one queued AlterOperation.
operationSql(b, operation) ==
    CASE operation.type = "renameColumn" ->
            <<alterTablePrefix(b) \o <<"RENAME COLUMN", " ">> \o escapeText(operation.from)
              \o <<" ", "TO", " ">> \o escapeText(operation.to) \o <<";", "\n">>>>
      [] operation.type = "dropColumn" ->
            <<alterTablePrefix(b) \o <<"DROP COLUMN", " ", "\"">> \o operation.name
              \o <<"\"", ";", "\n">>>>
      [] operation.type = "alterColumn" ->
            [i \in 1..Len(operation.changes) |->
                alterTablePrefix(b)
                \o alterToSql(b, operation.name, operation.changes[i].k,
                              operation.changes[i].v)
                \o <<";">>]
      [] operation.type = "dropIndex" ->
            <<<<"DROP INDEX IF EXISTS", " ">> \o escapeText(operation.name) \o <<";">>>>

createSql(b) ==
    <<"CREATE TABLE", " ">> \o escapeText(b.tableName) \o <<" ", "(", "\n">>
    \o Join(columnDefs(b), <<",", "\n">>) \o <<"\n", ")", ";", "\n">>

addColumnSql(b) ==
    [i \in 1..Len(b.columns) |->
        alterTablePrefix(b) \o <<"ADD COLUMN", " ">> \o columnDefs(b)[i] \o <<";">>]

\* (mutant) the queued operations replayed last to first
operationsSqlReversed(b) ==
    Flatten([i \in 1..Len(b.operations) |->
                operationSql(b, b.operations[Len(b.operations) + 1 - i])])

operationsSql(b) ==
    Flatten([i \in 1..Len(b.operations) |-> operationSql(b, b.operations[i])])

\* TableBuilder.toSQL: the list of statements; the index definitions are one
\* entry, the empty text when there are none.
toSQL(b) ==
    (IF b.mode = "create" THEN <<createSql(b)>> ELSE addColumnSql(b) \o operationsSql(b))
    \o <<Join(indexDefs(b), NL)>>
    \o b.raws

-----------------------------------------------------------------------------
(* utils.ts: createTemplateStringsArray.                                   *)

\* String.prototype.split at every occurrence of the atom c.
RECURSIVE Split(_, _)
Split(text, c) ==
    IF ~Occurs(text, c) THEN <<text>>
    ELSE LET i == Cut(text, {c})
         IN <<SubSeq(text, 1, i - 1)>> \o Split(SubSeq(text, i + 1, Len(text)), c)

createTemplateStringsArray(str) == Split(str, "?")

-----------------------------------------------------------------------------
(* The database behind postgres.begin, as far as the statements of the     *)
(* schema builder go: a batch runs in one transaction, statement by        *)
(* statement, and any statement that fails undoes the whole batch.         *)

\* The characters of an identifier written without quotes.
PlainChars == {"a", "b", "c", "d", "e", "t", "u", "_"}
Types == {"varchar", "integer", "boolean", "date"}
Blank == {" ", "\n"}

RECURSIVE Strip(_)
Strip(text) ==
    IF text # <<>> /\ Head(text) \in Blank THEN Strip(Tail(text))
    ELSE IF text # <<>> /\ text[Len(text)] \in Blank
    THEN Strip(SubSeq(text, 1, Len(text) - 1))
    ELSE text

\* The index of the quote q that closes the quoted text scanned from i on, a
\* doubled quote standing for one quote inside it; 0 when none does.
RECURSIVE ClosingQuote(_, _, _)
ClosingQuote(text, i, q) ==
    IF i > Len(text) THEN 0
    ELSE IF text[i] # q THEN ClosingQuote(text, i + 1, q)
    ELSE IF i < Len(text) /\ text[i + 1] = q THEN ClosingQuote(text, i + 2, q)
    ELSE i

QuotedEnd(text, i) == ClosingQuote(text, i, DQ)

RECURSIVE Undouble(_, _)
Undouble(cs, c) ==
    IF cs = <<>> THEN <<>>
    ELSE IF Len(cs) >= 2 /\ cs[1] = c /\ cs[2] = c
    THEN <<c>> \o Undouble(SubSeq(cs, 3, Len(cs)), c)
    ELSE <<Head(cs)>> \o Undouble(Tail(cs), c)

RECURSIVE PlainRun(_)
PlainRun(text) ==
    IF text = <<>> \/ Head(text) \notin PlainChars THEN 0 ELSE 1 + PlainRun(Tail(text))

NoName == [ok |-> FALSE, name |-> <<>>, rest |-> <<>>]
Name(cs, rest) == [ok |-> TRUE, name |-> cs, rest |-> rest]

\* The identifier text starts with, and what follows it.  A quoted
\* identifier must be closed and must not be empty.
ReadName(text) ==
    IF text = <<>> THEN NoName
    ELSE IF Head(text) = DQ
    THEN LET end == QuotedEnd(text, 2)
         IN IF end <= 2 THEN NoName
            ELSE Name(Undouble(SubSeq(text, 2, end - 1), DQ),
                      SubSeq(text, end + 1, Len(text)))
    ELSE LET n == PlainRun(text)
         IN IF n = 0 THEN NoName ELSE Name(SubSeq(text, 1, n), SubSeq(text, n + 1, Len(text)))

Failed == [ok |-> FALSE, tables |-> <<>>]
Done(tables) == [ok |-> TRUE, tables |-> tables]

\* A column definition `name type NULL|NOT NULL ...`: the constraints after
\* the nullability do not change what the live column is.
ReadColumn(text) ==
    LET id == ReadName(text)
    IN IF id.ok /\ Len(id.rest) >= 4 /\ id.rest[1] = " " /\ id.rest[2] \in Types
          /\ id.rest[3] = " " /\ id.rest[4] \in {"NULL", "NOT NULL"}
          /\ (Len(id.rest) >= 5 => id.rest[5] = " ")
       THEN [ok |-> TRUE, k |-> id.name,
             v |-> [type |-> id.rest[2], nullable |-> id.rest[4] = "NULL"]]
       ELSE [ok |-> FALSE, k |-> <<>>, v |-> <<>>]

\* The column definitions between the parentheses of CREATE TABLE.
ReadColumns(text) ==
    IF Strip(text) = <<>> THEN <<>>
    ELSE LET pieces == Split(text, ",")
         IN [i \in 1..Len(pieces) |-> ReadColumn(Strip(pieces[i]))]

Distinct(entries) ==
    \A i, j \in 1..Len(entries) : entries[i].k = entries[j].k => i = j

CreateTable(tables, text) ==
    LET id == ReadName(text)
        body == Strip(id.rest)
        cols == ReadColumns(SubSeq(body, 2, Len(body) - 1))
    IN IF /\ id.ok
          /\ ~MapHas(tables, id.name)
          /\ Len(body) >= 2 /\ Head(body) = "(" /\ body[Len(body)] = ")"
          /\ \A i \in 1..Len(cols) : cols[i].ok
          /\ Distinct(cols)
       THEN Done(MapSet(tables, id.name,
                        [i \in 1..Len(cols) |-> [k |-> cols[i].k, v |-> cols[i].v]]))
       ELSE Failed

RenameColumn(tables, name, text) ==
    LET from == ReadName(text)
        to == ReadName(SubSeq(from.rest, 4, Len(from.rest)))
        cols == MapGet(tables, name)
    IN IF /\ from.ok
          /\ Len(from.rest) >= 3 /\ SubSeq(from.rest, 1, 3) = <<" ", "TO", " ">>
          /\ to.ok /\ to.rest = <<>>
          /\ MapHas(cols, from.name) /\ ~MapHas(cols, to.name)
       THEN Done(MapSet(tables, name,
                        [i \in 1..Len(cols) |->
                            IF cols[i].k = from.name
                            THEN [k |-> to.name, v |-> cols[i].v] ELSE cols[i]]))
       ELSE Failed

DropColumn(tables, name, text) ==
    LET id == ReadName(text)
        cols == MapGet(tables, name)
    IN IF id.ok /\ id.rest = <<>> /\ MapHas(cols, id.name)
       THEN Done(MapSet(tables, name, MapDelete(cols, id.name)))
       ELSE Failed

AddColumn(tables, name, text) ==
    LET col == ReadColumn(text)
        cols == MapGet(tables, name)
    IN IF col.ok /\ ~MapHas(cols, col.k)
       THEN Done(MapSet(tables, name, Append(cols, [k |-> col.k, v |-> col.v])))
       ELSE Failed

\* ALTER COLUMN name SET DATA TYPE t | DROP NOT NULL | SET NOT NULL | ...
AlterColumn(tables, name, text) ==
    LET id == ReadName(text)
        cols == MapGet(tables, name)
        old == MapGet(cols, id.name)
        what == SubSeq(id.rest, 2, Len(id.rest))
    IN IF ~(id.ok /\ MapHas(cols, id.name)) THEN Failed
       ELSE IF Len(what) = 3 /\ what[1] = "SET DATA TYPE" /\ what[3] \in Types
       THEN Done(MapSet(tables, name, MapSet(cols, id.name, [old EXCEPT !.type = what[3]])))
       ELSE IF what = <<"DROP", " ", "NOT NULL">>
       THEN Done(MapSet(tables, name, MapSet(cols, id.name, [old EXCEPT !.nullable = TRUE])))
       ELSE IF what = <<"SET", " ", "NOT NULL">>
       THEN Done(MapSet(tables, name, MapSet(cols, id.name, [old EXCEPT !.nullable = FALSE])))
       ELSE IF what # <<>> /\ what[1] = "SET DEFAULT" THEN Done(tables)
       ELSE Failed

AlterTable(tables, text) ==
    LET id == ReadName(text)
        what == IF Len(id.rest) >= 2 THEN id.rest[2] ELSE ""
        after == SubSeq(id.rest, 4, Len(id.rest))
    IN IF ~(id.ok /\ MapHas(tables, id.name) /\ Len(id.rest) >= 3
            /\ id.rest[1] = " " /\ id.rest[3] = " ")
       THEN Failed
       ELSE CASE what = "RENAME COLUMN" -> RenameColumn(tables, id.name, after)
              [] what = "DROP COLUMN" -> DropColumn(tables, id.name, after)
              [] what = "ADD COLUMN" -> AddColumn(tables, id.name, after)
              [] what = "ALTER COLUMN" -> AlterColumn(tables, id.name, after)
              [] what \in {"ADD PRIMARY KEY", "ADD UNIQUE", "ADD CHECK",
                           "DROP CONSTRAINT IF EXISTS"} -> Done(tables)
              [] OTHER -> Failed

RenameTable(tables, text) ==
    LET from == ReadName(text)
        to == ReadName(SubSeq(from.rest, 4, Len(from.rest)))
    IN IF /\ from.ok
          /\ Len(from.rest) >= 3 /\ SubSeq(from.rest, 1, 3) = <<" ", "rename to", " ">>
          /\ to.ok /\ to.rest = <<>>
          /\ MapHas(tables, from.name) /\ ~MapHas(tables, to.name)
       THEN Done([i \in 1..Len(tables) |->
                     IF tables[i].k = from.name
                     THEN [k |-> to.name, v |-> tables[i].v] ELSE tables[i]])
       ELSE Failed

DropTable(tables, text) ==
    LET id == ReadName(text)
    IN IF id.ok /\ id.rest = <<>> /\ MapHas(tables, id.name)
       THEN Done(MapDelete(tables, id.name))
       ELSE Failed

\* One statement, already stripped of the blanks around it.
ExecuteOne(tables, st) ==
    LET after == SubSeq(st, 3, Len(st))
    IN IF st = <<>> \/ st = <<"SELECT 1">> THEN Done(tables)
       ELSE IF Len(st) < 3 \/ st[2] # " " THEN Failed
       ELSE CASE st[1] = "CREATE TABLE" -> CreateTable(tables, after)
              [] st[1] = "ALTER TABLE" -> AlterTable(tables, after)
              [] st[1] = "alter table" -> RenameTable(tables, after)
              [] st[1] = "drop table" -> DropTable(tables, after)
              [] st[1] \in {"CREATE", "DROP INDEX IF EXISTS"} -> Done(tables)
              [] OTHER -> Failed

RECURSIVE ExecuteAll(_, _)
ExecuteAll(tables, sts) ==
    IF sts = <<>> THEN Done(tables)
    ELSE LET one == ExecuteOne(tables, Strip(Head(sts)))
         IN IF one.ok THEN ExecuteAll(one.tables, Tail(sts)) ELSE Failed

\* A template of one segment is the statement text itself; one of several
\* segments comes without the values its placeholders need, which the
\* driver refuses.
Execute(tables, strings) ==
    IF Len(strings) = 1 THEN ExecuteAll(tables, Split(strings[1], ";")) ELSE Failed

-----------------------------------------------------------------------------
(* SchemaBuilder: createTable, alterTable, renameTable, dropTable, toSQL   *)
(* and run.  An entry of `changes` is a string or a TableBuilder.          *)

StringChange(text) == [typeof |-> "string", text |-> text, tableBuilder |-> NoBuilder]
BuilderChange(b) == [typeof |-> "object", text |-> <<>>, tableBuilder |-> b]

\* A SchemaBuilder method that changes nothing but `changes`.
Queued(op, entry) ==
    /\ changes' = Append(changes, entry)
    /\ tableBuilder' = NoBuilder
    /\ last' = Configured(op)
    /\ calls' = calls + 1
    /\ UNCHANGED <<running, builder, args, folder, postgres>>

\* createTable and alterTable up to the call of the callback: the callback
\* gets a new TableBuilder and calls its methods one by one.
enterCallback(tableName, mode) ==
    /\ tableBuilder.mode = "none"
    /\ tableBuilder' = NewTableBuilder(tableName, mode)
    /\ last' = Configured("TableBuilder")
    /\ calls' = calls + 1
    /\ UNCHANGED <<running, builder, args, folder, changes, postgres>>

createTable(tableName) == enterCallback(tableName, "create")
alterTable(tableName) == enterCallback(tableName, "alter")

\* The callback returned: this.changes.push(builder).
callbackReturns ==
    /\ tableBuilder.mode # "none"
    /\ Queued(IF tableBuilder.mode = "create" THEN "createTable" ELSE "alterTable",
              BuilderChange(tableBuilder))

\* The callback did not catch what the last TableBuilder method threw: the
\* exception leaves createTable / alterTable before the push.
callbackThrows ==
    /\ tableBuilder.mode # "none"
    /\ last.error # ""
    /\ tableBuilder' = NoBuilder
    /\ last' = Threw(IF tableBuilder.mode = "create" THEN "createTable" ELSE "alterTable",
                     last.error)
    /\ calls' = calls + 1
    /\ UNCHANGED <<running, builder, args, folder, changes, postgres>>

renameTable(oldTableName, newTableName) ==
    /\ tableBuilder.mode = "none"
    /\ Queued("renameTable",
              StringChange(<<"alter table", " ">> \o escapeText(oldTableName)
                           \o <<" ", "rename to", " ">> \o escapeText(newTableName)
                           \o <<";">>))

dropTable(tableName) ==
    /\ tableBuilder.mode = "none"
    /\ Queued("dropTable",
              StringChange(<<"drop table", " ">> \o escapeText(tableName) \o <<";">>))

\* (mutant) toSQL walking this.changes from its last entry to its first
schemaToSQLReversed(entries) ==
    Flatten([i \in 1..Len(entries) |->
                IF entries[Len(entries) + 1 - i].typeof = "string"
                THEN <<entries[Len(entries) + 1 - i].text>>
                ELSE toSQL(entries[Len(entries) + 1 - i].tableBuilder)])

\* SchemaBuilder.toSQL
schemaToSQL(entries) ==
    Flatten([i \in 1..Len(entries) |->
                IF entries[i].typeof = "string" THEN <<entries[i].text>>
                ELSE toSQL(entries[i].tableBuilder)])

\* What a rejected run() throws: `${error}\n\nSQL: ${sql}`.
Rejection(op, error, sql) ==
    [Threw(op, "Error") EXCEPT !.message = <<error, "\n", "\n", "SQL: ">> \o sql]

\* The ways postgres.begin can end for a batch: it commits when every
\* statement runs, it rejects when one does not, and it can reject for a
\* reason that is not in the batch.
BeginOutcomes(strings) ==
    {"CONNECTION_CLOSED"}
    \cup (IF Execute(postgres.tables, strings).ok THEN {"COMMIT"} ELSE {"PostgresError"})

\* postgres.begin was called with the template strings and ended as outcome.
Begun(db, strings, outcome) ==
    [db EXCEPT !.begun = Append(@, [strings |-> strings, outcome |-> outcome])]

\* run() returned without a failure.
runResolves(entries, db) ==
    /\ changes' = entries
    /\ postgres' = db
    /\ last' = Configured("run")
    /\ calls' = calls + 1
    /\ UNCHANGED <<running, builder, args, folder, tableBuilder>>

\* (mutant) run() with `this.changes = []` before the try block
runRejectsAndClears(strings, error, sql) ==
    /\ postgres' = Begun(postgres, strings, error)
    /\ last' = Rejection("run", error, sql)
    /\ changes' = <<>>
    /\ calls' = calls + 1
    /\ UNCHANGED <<running, builder, args, folder, tableBuilder>>

runRejects(strings, error, sql) ==
    /\ postgres' = Begun(postgres, strings, error)
    /\ last' = Rejection("run", error, sql)
    /\ calls' = calls + 1
    /\ UNCHANGED <<running, builder, args, folder, changes, tableBuilder>>

runBatch(sql, strings, outcome) ==
    IF outcome = "COMMIT"
    THEN runResolves(<<>>, [Begun(postgres, strings, outcome) EXCEPT
                               !.tables = Execute(@, strings).tables])
    ELSE runRejects(strings, outcome, sql)

run ==
    /\ tableBuilder.mode = "none"
    /\ LET statements == schemaToSQL(changes)
           sql == Join(statements, NL)
       IN IF statements = <<>> THEN runResolves(changes, postgres)
          ELSE \E outcome \in BeginOutcomes(createTemplateStringsArray(sql)) :
                  runBatch(sql, createTemplateStringsArray(sql), outcome)


-----------------------------------------------------------------------------
(* Migrator.  A migration file is [name, up, down, table]: its name        *)
(* without the .ts suffix, and what its exported `up` and `down` do with   *)
(* the SchemaBuilder they are given: `up` throws ("throws"), calls         *)
(* builder.createTable(table, t => t.string('id')) ("createTable") or      *)
(* calls builder.dropTable(table) ("dropTable"); `down` throws ("throws")  *)
(* or calls builder.dropTable(table) ("dropTable").                        *)
(* `folder` lists the files of the                                         *)
(* folder in ascending order of their names.  A row of typed_pg_migrations *)
(* is [name, migration_time]; the rows are kept in insertion order and     *)
(* migration_time is the moment of the INSERT.                             *)

MigrationFile(name, kind, undo, tableName) ==
    [name |-> name, up |-> kind, down |-> undo, table |-> tableName]

\* The position of a character in the ordering of UTF-16 code units.
CodeUnit(c) == CHOOSE i \in 1..Len(DigitAtoms) : DigitAtoms[i] = c

\* x > y for two strings: the first differing code unit decides, and a
\* proper prefix is the smaller one.
RECURSIVE StringGreater(_, _)
StringGreater(x, y) ==
    IF x = <<>> THEN FALSE
    ELSE IF y = <<>> THEN TRUE
    ELSE IF Head(x) = Head(y) THEN StringGreater(Tail(x), Tail(y))
    ELSE CodeUnit(Head(x)) > CodeUnit(Head(y))

\* No row: migrations[0] of an empty result, whose ?.name is undefined.
NoRow == [name |-> <<>>, migration_time |-> 0]

\* name > lastMigration?.name: a comparison with undefined is false.
AfterLast(name, lastMigration) ==
    IF lastMigration = NoRow THEN FALSE ELSE StringGreater(name, lastMigration.name)

createMigrationTableSql == <<"CREATE TABLE IF NOT EXISTS typed_pg_migrations">>
selectAllSql == <<"SELECT * FROM typed_pg_migrations">>
selectLastSql == <<"SELECT * FROM typed_pg_migrations ORDER BY migration_time DESC LIMIT 1">>
recordSql == <<"INSERT INTO typed_pg_migrations (name, migration_time) VALUES (", "$1", ", NOW())">>

RawCall(sql, params) == [sql |-> sql, params |-> params]

\* ORDER BY migration_time DESC LIMIT 1
LastRow(rows) ==
    IF rows = <<>> THEN NoRow
    ELSE rows[CHOOSE i \in 1..Len(rows) :
                  \A j \in 1..Len(rows) : rows[j].migration_time <= rows[i].migration_time]

Recorded(rows, name) == \E i \in 1..Len(rows) : rows[i].name = name

\* What the exported up(builder) of a file leaves in builder.changes.
idColumn == <<"i", "d">>
upOf(file, entries) ==
    IF file.up = "throws" THEN [error |-> "up failed", changes |-> entries]
    ELSE IF file.up = "dropTable"
    THEN [error |-> "",
          changes |-> Append(entries,
              StringChange(<<"drop table", " ">> \o escapeText(file.table) \o <<";">>))]
    ELSE [error |-> "",
          changes |-> Append(entries,
              BuilderChange([NewTableBuilder(file.table, "create") EXCEPT
                  !.columns = MapSet(@, idColumn, ColumnDefinition("varchar")),
                  !.definition = Ident(idColumn)]))]

\* What the exported down(builder) of a file leaves in builder.changes.
downOf(file, entries) ==
    IF file.down = "throws" THEN [error |-> "down failed", changes |-> entries]
    ELSE [error |-> "",
          changes |-> Append(entries,
              StringChange(<<"drop table", " ">> \o escapeText(file.table) \o <<";">>))]

\* What the environment does to the statements of one migration: nothing,
\* or the connection is lost during the DDL batch, or during the INSERT or
\* DELETE that follows it.
Fates == {"none", "begin", "insert"}

\* The one element of a singleton set: The({e(x) : x \in {v}}) is e(v), with
\* v evaluated once.
The(S) == CHOOSE x \in S : TRUE

\* postgres.begin for the batch: it commits when every statement runs.
beginOn(db, strings, fate) ==
    IF fate = "begin" THEN "CONNECTION_CLOSED"
    ELSE IF Execute(db.tables, strings).ok THEN "COMMIT"
    ELSE "PostgresError"

\* run() from the try block on: the batch commits and changes is emptied, or
\* run() throws and changes is kept.
batchOn(entries, db, sql, strings, outcome) ==
    IF outcome = "COMMIT"
    THEN [error |-> "", message |-> <<>>, changes |-> <<>>,
          db |-> [Begun(db, strings, outcome) EXCEPT
                     !.tables = Execute(@, strings).tables]]
    ELSE [error |-> "Error", message |-> Rejection("run", outcome, sql).message,
          changes |-> entries, db |-> Begun(db, strings, outcome)]

\* builder.run() on a SchemaBuilder holding entries, against database db.
runOn(entries, db, fate) ==
    The({IF schemaToSQL(entries) = <<>>
         THEN [error |-> "", message |-> <<>>, changes |-> entries, db |-> db]
         ELSE The({batchOn(entries, db, sql, strings, beginOn(db, strings, fate)) :
                      strings \in {createTemplateStringsArray(sql)}}) :
            sql \in {Join(schemaToSQL(entries), NL)}})

\* INSERT INTO typed_pg_migrations (name, migration_time) VALUES (name, NOW()):
\* name is the primary key.
insertOn(db, name, fate) ==
    IF fate = "insert" THEN [error |-> "CONNECTION_CLOSED", db |-> db]
    ELSE IF Recorded(db.migrations, name) THEN [error |-> "PostgresError", db |-> db]
    ELSE [error |-> "",
          db |-> [db EXCEPT !.migrations =
                     Append(@, [name |-> name, migration_time |-> Len(@) + 1])]]

\* (mutant) the try block without the jump to catch when run() throws
runAndRecordAnyway(file, entries, db, raws, fate) ==
    The({The({[error |-> inserted.error, message |-> <<>>, changes |-> ran.changes,
               db |-> inserted.db,
               raw |-> Append(raws, RawCall(recordSql, <<file.name>>))] :
                 inserted \in {insertOn(ran.db, file.name, fate)}}) :
            ran \in {runOn(entries, db, fate)}})

\* await builder.run(); INSERT, after up(builder) left entries queued.
runAndRecord(file, entries, db, raws, fate) ==
    The({IF ran.error # ""
         THEN [error |-> ran.error, message |-> ran.message, changes |-> ran.changes,
               db |-> ran.db, raw |-> raws]
         ELSE The({[error |-> inserted.error, message |-> <<>>, changes |-> ran.changes,
                    db |-> inserted.db,
                    raw |-> Append(raws, RawCall(recordSql, <<file.name>>))] :
                      inserted \in {insertOn(ran.db, file.name, fate)}}) :
            ran \in {runOn(entries, db, fate)}})

\* The body of the try block: up(builder); await builder.run(); INSERT.
applyFile(file, entries, db, raws, fate) ==
    The({IF queued.error # ""
         THEN [error |-> queued.error, message |-> <<>>, changes |-> queued.changes,
               db |-> db, raw |-> raws]
         ELSE runAndRecord(file, queued.changes, db, raws, fate) :
            queued \in {upOf(file, entries)}})

\* The loop of migrate() after the try block of a file ended as applied.
loopAfter(applied) ==
    [error |-> applied.error, message |-> applied.message,
     db |-> applied.db, raw |-> applied.raw]

\* (mutant) the loop of migrate() without the `continue` for a recorded name
RECURSIVE migrateLoopNoSkip(_, _, _, _, _, _, _)
migrateLoopNoSkip(files, i, migrations, entries, db, raws, fates) ==
    IF i > Len(files)
    THEN [error |-> "", message |-> <<>>, db |-> db, raw |-> raws]
    ELSE The({IF applied.error # "" THEN loopAfter(applied)
              ELSE migrateLoopNoSkip(files, i + 1, migrations, applied.changes,
                                     applied.db, applied.raw, fates) :
                 applied \in {applyFile(files[i], entries, db, raws, fates[i])}})

\* for (const file of files) { ... } of migrate(), from the i-th file on:
\* migrations is the result of the SELECT before the loop, entries the
\* changes of the one SchemaBuilder the loop shares.
RECURSIVE migrateLoop(_, _, _, _, _, _, _)
migrateLoop(files, i, migrations, entries, db, raws, fates) ==
    IF i > Len(files)
    THEN [error |-> "", message |-> <<>>, db |-> db, raw |-> raws]
    ELSE IF Recorded(migrations, files[i].name)
    THEN migrateLoop(files, i + 1, migrations, entries, db, raws, fates)
    ELSE The({IF applied.error # "" THEN loopAfter(applied)
              ELSE migrateLoop(files, i + 1, migrations, applied.changes,
                               applied.db, applied.raw, fates) :
                 applied \in {applyFile(files[i], entries, db, raws, fates[i])}})

\* A Migrator method ended: resolved when error is "", rejected with it
\* otherwise.
Migrated(op, result) ==
    /\ postgres' = result.db
    /\ last' = [Outcome(op, result.error, result.raw, <<>>, <<>>) EXCEPT
                   !.message = result.message]
    /\ calls' = calls + 1
    /\ UNCHANGED <<running, builder, args, folder, changes, tableBuilder>>

\* migrate(), with fates[i] what the environment does to the i-th file
migrate(fates) ==
    IF folder = <<>>
    THEN Migrated("migrate", [error |-> "", message |-> <<>>, db |-> postgres, raw |-> <<>>])
    ELSE \E result \in {migrateLoop(folder, 1, postgres.migrations, <<>>, postgres,
                                    <<RawCall(createMigrationTableSql, <<>>),
                                      RawCall(selectAllSql, <<>>)>>,
                                    fates)} :
            Migrated("migrate", result)

\* files.find((file) => name(file) > lastMigration?.name): the index of the
\* first such file, 0 when there is none.
nextFile(files, lastMigration) ==
    LET later == {i \in 1..Len(files) : AfterLast(files[i].name, lastMigration)}
    IN IF later = {} THEN 0 ELSE CHOOSE i \in later : \A j \in later : i <= j

\* up() from `const name = basename(nextFile)` on
upFile(file, raws, fate) ==
    \E applied \in {applyFile(file, <<>>, postgres, raws, fate)} :
        Migrated("up", loopAfter(applied))

\* up(), with fate what the environment does to the statements of the file
up(fate) ==
    LET raws == <<RawCall(createMigrationTableSql, <<>>), RawCall(selectLastSql, <<>>)>>
    IN IF folder = <<>>
       THEN Migrated("up", [error |-> "", message |-> <<>>, db |-> postgres, raw |-> <<>>])
       ELSE \E next \in {nextFile(folder, LastRow(postgres.migrations))} :
               IF next = 0
               THEN Migrated("up", [error |-> "", message |-> <<>>, db |-> postgres,
                                    raw |-> raws])
               ELSE upFile(folder[next], raws, fate)

deleteSql == <<"DELETE FROM typed_pg_migrations WHERE name = ", "$1">>

\* (mutant) the DELETE of down() without its WHERE clause
deleteAllOn(db, name, fate) ==
    IF fate = "insert" THEN [error |-> "CONNECTION_CLOSED", db |-> db]
    ELSE [error |-> "", db |-> [db EXCEPT !.migrations = <<>>]]

\* DELETE FROM typed_pg_migrations WHERE name = ${lastMigration.name}
deleteOn(db, name, fate) ==
    IF fate = "insert" THEN [error |-> "CONNECTION_CLOSED", db |-> db]
    ELSE [error |-> "",
          db |-> [db EXCEPT !.migrations = SelectSeq(@, LAMBDA row : row.name # name)]]

\* await builder.run(); DELETE, after down(builder) left entries queued.
runAndDelete(file, entries, db, raws, fate) ==
    The({IF ran.error # ""
         THEN [error |-> ran.error, message |-> ran.message, db |-> ran.db, raw |-> raws]
         ELSE The({[error |-> deleted.error, message |-> <<>>, db |-> deleted.db,
                    raw |-> Append(raws, RawCall(deleteSql, <<file.name>>))] :
                      deleted \in {deleteOn(ran.db, file.name, fate)}}) :
            ran \in {runOn(entries, db, fate)}})

\* The try block of down(): down(builder); await builder.run(); DELETE.
revertFile(file, db, raws, fate) ==
    The({IF queued.error # ""
         THEN [error |-> queued.error, message |-> <<>>, db |-> db, raw |-> raws]
         ELSE runAndDelete(file, queued.changes, db, raws, fate) :
            queued \in {downOf(file, <<>>)}})

\* existsSync(join(this.folder, `${name}.ts`)): the index of the file with
\* that name, 0 when the folder has none.
fileNamed(files, name) ==
    IF \E i \in 1..Len(files) : files[i].name = name
    THEN CHOOSE i \in 1..Len(files) : files[i].name = name
    ELSE 0

\* down() from `const builder = new SchemaBuilder(this.client)` on
downFile(file, raws, fate) ==
    \E reverted \in {revertFile(file, postgres, raws, fate)} : Migrated("down", reverted)

\* down(), with fate what the environment does to the statements of the file
down(fate) ==
    LET raws == <<RawCall(createMigrationTableSql, <<>>), RawCall(selectLastSql, <<>>)>>
        unchanged == [error |-> "", message |-> <<>>, db |-> postgres, raw |-> raws]
    IN IF folder = <<>>
       THEN Migrated("down", [error |-> "", message |-> <<>>, db |-> postgres, raw |-> <<>>])
       ELSE \E lastMigration \in {LastRow(postgres.migrations)} :
               IF lastMigration = NoRow THEN Migrated("down", unchanged)
               ELSE \E found \in {fileNamed(folder, lastMigration.name)} :
                       IF found = 0 THEN Migrated("down", unchanged)
                       ELSE downFile(folder[found], raws, fate)

-----------------------------------------------------------------------------
(* SpecSchema: one SchemaBuilder and the database behind it; at most       *)
(* MaxSchemaCalls calls, those of the callbacks included.                  *)

MaxSchemaCalls == 5

tableT == <<"t">>
tableU == <<"u">>
TableNames == {tableT, tableU}

SchemaCreateTable ==
    calls < MaxSchemaCalls /\ \E tableName \in TableNames : createTable(tableName)
SchemaAlterTable == calls < MaxSchemaCalls /\ alterTable(tableT)
SchemaString == calls < MaxSchemaCalls /\ string(colA)
SchemaRenameColumn == calls < MaxSchemaCalls /\ renameColumn(nameB, nameC)
SchemaDropColumn == calls < MaxSchemaCalls /\ dropColumn(colA)
SchemaCallbackReturns == calls < MaxSchemaCalls /\ callbackReturns
SchemaCallbackThrows == calls < MaxSchemaCalls /\ callbackThrows
SchemaRenameTable == calls < MaxSchemaCalls /\ renameTable(tableT, tableU)
SchemaDropTable == calls < MaxSchemaCalls /\ \E tableName \in TableNames : dropTable(tableName)
SchemaRun == calls < MaxSchemaCalls /\ run

NextSchema ==
    \/ SchemaCreateTable
    \/ SchemaAlterTable
    \/ SchemaString
    \/ SchemaRenameColumn
    \/ SchemaDropColumn
    \/ SchemaCallbackReturns
    \/ SchemaCallbackThrows
    \/ SchemaRenameTable
    \/ SchemaDropTable
    \/ SchemaRun

SpecSchema == Init /\ [][NextSchema]_vars

-----------------------------------------------------------------------------
(* SpecTable: one TableBuilder, in create or in alter mode, and at most    *)
(* MaxTableCalls calls on it, the constructor included.                    *)

MaxTableCalls == 4

ColumnNames == {colA, nameB, nameC}
ChangesInputs ==
    {<<[k |-> "nullable", v |-> Bool(TRUE)]>>,
     <<[k |-> "type", v |-> "date"], [k |-> "check", v |-> Text(<<"a", ">", "0">>)]>>,
     <<[k |-> "collate", v |-> Text(<<"C">>)]>>}
IndexOptions ==
    {[unique |-> Undefined, indexType |-> Undefined],
     [unique |-> Bool(TRUE), indexType |-> Str("btree")]}

TableNew ==
    calls < MaxTableCalls /\ \E mode \in {"create", "alter"} : enterCallback(tableT, mode)
TableString == calls < MaxTableCalls /\ string(colA)
TableNumber == calls < MaxTableCalls /\ number(nameB)
TableNullable == calls < MaxTableCalls /\ \E flag \in BOOLEAN : nullable(Bool(flag))
TableDefaultTo == calls < MaxTableCalls /\ \E v \in {Null, Num(7)} : defaultTo(v)
TablePrimary == calls < MaxTableCalls /\ primary
TableUnique == calls < MaxTableCalls /\ unique
TableReferences == calls < MaxTableCalls /\ references(tableU, colA)
TableRenameColumn ==
    calls < MaxTableCalls /\ \E from \in {colA, nameB}, to \in {nameB, nameC} : renameColumn(from, to)
TableDropColumn == calls < MaxTableCalls /\ \E name \in {colA, nameB} : dropColumn(name)
TableAlterColumn ==
    calls < MaxTableCalls /\ \E name \in {colA, nameB}, changed \in ChangesInputs : alterColumn(name, changed)
TableIndex == calls < MaxTableCalls /\ \E options \in IndexOptions : index(<<colA>>, options)
TableDropIndex == calls < MaxTableCalls /\ dropIndex(<<colA>>)
TableRaw == calls < MaxTableCalls /\ raw(<<"SELECT 1">>)

NextTable ==
    \/ TableNew
    \/ TableString
    \/ TableNumber
    \/ TableNullable
    \/ TableDefaultTo
    \/ TablePrimary
    \/ TableUnique
    \/ TableReferences
    \/ TableRenameColumn
    \/ TableDropColumn
    \/ TableAlterColumn
    \/ TableIndex
    \/ TableDropIndex
    \/ TableRaw

SpecTable == Init /\ [][NextTable]_vars

-----------------------------------------------------------------------------
(* SpecRoundTrip: a createTable is run against the empty database, then an *)
(* alterTable that renames and drops columns of that table is run.  The    *)
(* alterTable names only columns the table has at that point and renames   *)
(* them to names it does not have.                                         *)

MaxRoundCalls == 10
MaxRoundColumns == 2

quoted == <<"c", "\"", "d">>
RoundNames == {colA, nameB, quoted}

RECURSIVE ApplyTo(_, _)
\* The builder b after the renameColumn and dropColumn calls that queued
\* the operations, made in the same order.
ApplyTo(b, operations) ==
    IF operations = <<>> THEN b
    ELSE LET operation == Head(operations)
         IN ApplyTo(IF operation.type = "renameColumn"
                    THEN renameColumnOn(b, operation.from, operation.to).b
                    ELSE dropColumnOn(b, operation.name).b,
                    Tail(operations))

\* The create-mode definition of a live table.
AsDefined(name, cols) ==
    [NewTableBuilder(name, "create") EXCEPT !.columns =
        [i \in 1..Len(cols) |->
            [k |-> cols[i].k,
             v |-> [ColumnDefinition(cols[i].v.type) EXCEPT
                       !.nullable = Bool(cols[i].v.nullable)]]]]

\* The pending definition of table t while the alterTable callback runs.
Pending == ApplyTo(AsDefined(tableT, MapGet(postgres.tables, tableT)), tableBuilder.operations)

RoundCreateTable ==
    /\ calls < MaxRoundCalls
    /\ postgres.begun = <<>> /\ changes = <<>>
    /\ createTable(tableT)

RoundColumn ==
    /\ calls < MaxRoundCalls
    /\ tableBuilder.mode = "create"
    /\ Len(tableBuilder.columns) < MaxRoundColumns
    /\ \E name \in RoundNames :
          /\ ~MapHas(tableBuilder.columns, name)
          /\ (string(name) \/ number(name))

RoundNullable ==
    /\ calls < MaxRoundCalls
    /\ tableBuilder.mode = "create"
    /\ last.op = "column"
    /\ \E flag \in BOOLEAN : nullable(Bool(flag))

RoundCallbackReturns == calls < MaxRoundCalls /\ callbackReturns

RoundRun == calls < MaxRoundCalls /\ Len(changes) = 1 /\ run

RoundAlterTable ==
    /\ calls < MaxRoundCalls
    /\ MapHas(postgres.tables, tableT) /\ changes = <<>>
    /\ alterTable(tableT)

RoundRenameColumn ==
    /\ calls < MaxRoundCalls
    /\ tableBuilder.mode = "alter"
    /\ \E from \in RoundNames, to \in RoundNames :
          /\ MapHas(Pending.columns, from)
          /\ ~MapHas(Pending.columns, to)
          /\ renameColumn(from, to)

RoundDropColumn ==
    /\ calls < MaxRoundCalls
    /\ tableBuilder.mode = "alter"
    /\ \E name \in RoundNames : MapHas(Pending.columns, name) /\ dropColumn(name)

NextRoundTrip ==
    \/ RoundCreateTable
    \/ RoundColumn
    \/ RoundNullable
    \/ RoundCallbackReturns
    \/ RoundRun
    \/ RoundAlterTable
    \/ RoundRenameColumn
    \/ RoundDropColumn

SpecRoundTrip == Init /\ [][NextRoundTrip]_vars

-----------------------------------------------------------------------------
(* SpecValue: a create-mode TableBuilder with one column whose default is  *)
(* any value of ValueInputs; toSQL() writes the default through            *)
(* escapeValue.  At most MaxValueCalls calls, arrays of MaxElements.       *)

MaxElements == 2
MaxValueCalls == 3

now == <<"n", "o", "w", "(", ")">>
ScalarInputs ==
    {Null, Bool(TRUE), Bool(FALSE), Num(0), Num(-12), Num(305), NotANumber,
     Text(<<>>), Text(<<"a", "'">>), Text(<<"'", ",", "]">>), Text(now)}
InnerArrays == {Arr(<<>>), Arr(<<Num(1), Text(<<"'">>)>>)}
ArrayInputs ==
    {Arr(xs) : xs \in UNION {[1..n -> ScalarInputs \cup InnerArrays] : n \in 0..MaxElements}}
ValueInputs == ScalarInputs \cup ArrayInputs

ValueNew == calls < MaxValueCalls /\ tableBuilder.mode = "none" /\ createTable(tableT)
ValueColumn == calls < MaxValueCalls /\ tableBuilder.columns = <<>> /\ string(colA)
ValueDefaultTo == calls < MaxValueCalls /\ \E value \in ValueInputs : defaultTo(value)

NextValue == ValueNew \/ ValueColumn \/ ValueDefaultTo

SpecValue == Init /\ [][NextValue]_vars


-----------------------------------------------------------------------------
(* SpecMigrate: one Migrator over a folder of at most MaxFiles migration   *)
(* files, and at most MaxMigratorCalls calls of migrate(), up() and down() *)
(* on it; a file can be deleted from the folder between two calls.         *)

MaxFiles == 3
MaxMigratorCalls == 4

\* File names in ascending order: "1" < "10" < "2" < "20".
FileNames == <<(<<"1">>), (<<"1", "0">>), (<<"2">>), (<<"2", "0">>)>>

\* What the up and down functions of a file can be.
UpKinds == {[up |-> "createTable", down |-> "dropTable", table |-> tableT],
            [up |-> "createTable", down |-> "throws", table |-> tableU],
            [up |-> "throws", down |-> "dropTable", table |-> tableT]}

\* The lists of at most MaxFiles of the names, in ascending order.
NameLists ==
    {names \in {SelectSeq(FileNames, LAMBDA n : n \in chosen) :
                   chosen \in SUBSET {FileNames[i] : i \in 1..Len(FileNames)}} :
        Len(names) <= MaxFiles}

\* The folders: a list of names, each with an up function.
Folders ==
    UNION {{[i \in 1..Len(names) |-> MigrationFile(names[i], kinds[i].up, kinds[i].down,
                                            kinds[i].table)] :
               kinds \in [1..Len(names) -> UpKinds]} :
           names \in NameLists}

\* new Migrator({ client, folder })
newMigrator(files) ==
    /\ folder' = files
    /\ last' = Configured("Migrator")
    /\ calls' = calls + 1
    /\ UNCHANGED <<running, builder, args, changes, tableBuilder, postgres>>

MigratorNew ==
    /\ calls = 0
    /\ \E files \in Folders : newMigrator(files)

\* The loop of migrate() ends with the first statement that fails, so the
\* environment has one choice to make: which file, if any, loses the
\* connection, and during which statement.
FateLists(n) ==
    {[i \in 1..n |-> IF i = at THEN fate ELSE "none"] : at \in 0..n, fate \in Fates}

MigratorMigrate ==
    /\ calls > 0 /\ calls < MaxMigratorCalls
    /\ \E fates \in FateLists(Len(folder)) : migrate(fates)

MigratorUp ==
    /\ calls > 0 /\ calls < MaxMigratorCalls
    /\ \E fate \in Fates : up(fate)

MigratorDown ==
    /\ calls > 0 /\ calls < MaxMigratorCalls
    /\ \E fate \in Fates : down(fate)

\* The file of an applied migration is deleted from the folder.
FileRemoved ==
    /\ calls > 0 /\ calls < MaxMigratorCalls
    /\ \E i \in 1..Len(folder) :
          /\ Recorded(postgres.migrations, folder[i].name)
          /\ folder' = SubSeq(folder, 1, i - 1) \o SubSeq(folder, i + 1, Len(folder))
    /\ UNCHANGED <<running, builder, args, changes, tableBuilder, postgres, calls, last>>

NextMigrate == MigratorNew \/ MigratorMigrate \/ MigratorUp \/ MigratorDown \/ FileRemoved

SpecMigrate == Init /\ [][NextMigrate]_vars

-----------------------------------------------------------------------------
(* SpecInterleaved: two invocations of migrate() and up() at a time on the *)
(* same folder and the same database.  An invocation runs from one await   *)
(* to the next in one step; the statement it awaits runs in the database   *)
(* in one piece; no statement fails for a reason outside the database.     *)

MaxInvocations == 3

InterleavedFolders ==
    {<<MigrationFile(FileNames[1], "createTable", "dropTable", tableT),
       MigrationFile(FileNames[3], "dropTable", "throws", tableT)>>,
     <<MigrationFile(FileNames[1], "createTable", "dropTable", tableT),
       MigrationFile(FileNames[3], "createTable", "dropTable", tableU)>>}

InterleavedNew ==
    /\ calls = 0
    /\ \E files \in InterleavedFolders : newMigrator(files)
    /\ UNCHANGED running

\* The invocation p goes on with its locals set as in `next`.
Awaits(p, next) ==
    /\ running' = [running EXCEPT ![p] = next]
    /\ UNCHANGED <<builder, args, folder, changes, tableBuilder, calls, last>>

\* The invocation p ends: resolved when error is "", rejected with it
\* otherwise.
Settles(p, error) ==
    /\ running' = [running EXCEPT ![p] = [NotInvoked EXCEPT !.at = "settled",
                                                            !.op = running[p].op]]
    /\ last' = Outcome(running[p].op, error, <<>>, <<>>, <<>>)
    /\ UNCHANGED <<builder, args, folder, changes, tableBuilder, calls>>

\* migrate() and up() up to `await this.createMigrationTable()`.
invoke(p, method) ==
    /\ running[p].at \in {"idle", "settled"}
    /\ calls' = calls + 1
    /\ running' = [running EXCEPT ![p] =
                      [NotInvoked EXCEPT !.op = method, !.files = folder,
                                         !.at = IF folder = <<>> THEN "settled"
                                                ELSE "createMigrationTable"]]
    /\ UNCHANGED <<builder, args, folder, changes, tableBuilder, postgres, last>>

\* The SELECT on typed_pg_migrations returns; migrate() keeps the rows, up()
\* looks for the next file.
selected(p) ==
    /\ running[p].at = "createMigrationTable"
    /\ UNCHANGED postgres
    /\ IF running[p].op = "migrate"
       THEN Awaits(p, [running[p] EXCEPT !.migrations = postgres.migrations,
                                         !.i = 1, !.at = "import"])
       ELSE \E next \in {nextFile(running[p].files, LastRow(postgres.migrations))} :
               IF next = 0 THEN Settles(p, "")
               ELSE Awaits(p, [running[p] EXCEPT !.i = next, !.at = "import"])

\* The index of the first file from i on that migrate() does not skip, 0
\* when it skips them all.
firstUnrecorded(files, i, migrations) ==
    LET left == {j \in i..Len(files) : ~Recorded(migrations, files[j].name)}
    IN IF left = {} THEN 0 ELSE CHOOSE j \in left : \A k \in left : j <= k

\* up(builder); await builder.run() for the file at index j.
runs(p, j) ==
    \E queued \in {upOf(running[p].files[j], running[p].entries)} :
        IF queued.error # "" THEN UNCHANGED postgres /\ Settles(p, queued.error)
        ELSE \E ran \in {runOn(queued.changes, postgres, "none")} :
                /\ postgres' = ran.db
                /\ IF ran.error # "" THEN Settles(p, ran.error)
                   ELSE Awaits(p, [running[p] EXCEPT !.i = j, !.entries = ran.changes,
                                                     !.at = "run"])

\* The import of the file returns: migrate() skips the files its rows name
\* and runs the first one they do not name; up() runs its file.
imported(p) ==
    /\ running[p].at = "import"
    /\ IF running[p].op = "up" THEN runs(p, running[p].i)
       ELSE \E j \in {firstUnrecorded(running[p].files, running[p].i,
                                      running[p].migrations)} :
               IF j = 0 THEN UNCHANGED postgres /\ Settles(p, "")
               ELSE runs(p, j)

\* builder.run() resolved: the INSERT for the file is sent and awaited.
ran(p) ==
    /\ running[p].at = "run"
    /\ \E inserted \in {insertOn(postgres, running[p].files[running[p].i].name, "none")} :
          /\ postgres' = inserted.db
          /\ IF inserted.error # "" THEN Settles(p, inserted.error)
             ELSE IF running[p].op = "up" THEN Settles(p, "")
             ELSE Awaits(p, [running[p] EXCEPT !.i = @ + 1, !.at = "import"])

InterleavedInvoke ==
    /\ calls > 0 /\ calls <= MaxInvocations
    /\ \E p \in Invokers, method \in {"migrate", "up"} : invoke(p, method)
InterleavedSelected == calls > 0 /\ \E p \in Invokers : selected(p)
InterleavedImported == calls > 0 /\ \E p \in Invokers : imported(p)
InterleavedRan == calls > 0 /\ \E p \in Invokers : ran(p)

NextInterleaved ==
    \/ InterleavedNew
    \/ InterleavedInvoke
    \/ InterleavedSelected
    \/ InterleavedImported
    \/ InterleavedRan

SpecInterleaved == Init /\ [][NextInterleaved]_vars

-----------------------------------------------------------------------------
(* SpecTemplate: the statements that reach the executor when a name, a     *)
(* default or a raw statement may hold a question mark: a QueryBuilder     *)
(* with one condition and count(), and a SchemaBuilder with createTable,   *)
(* dropTable and run(); at most MaxTemplateCalls calls.                    *)

MaxTemplateCalls == 5

nameQ == <<"a", "?">>
TemplateNames == {colA, nameQ}
TemplateDefaults == {Num(7), Text(<<"a">>), Text(<<"?">>)}
TemplateRaws == {<<"SELECT 1">>, <<"SELECT", " ", "'", "?", "'">>}

TemplateWhere ==
    /\ calls < MaxTemplateCalls /\ whereConditions = <<>> /\ changes = <<>>
    /\ tableBuilder.mode = "none"
    /\ \E name \in TemplateNames : where(Ident(name), Num(1), Undefined)
TemplateCount == whereConditions # <<>> /\ count
TemplateCreateTable ==
    /\ calls < MaxTemplateCalls /\ whereConditions = <<>>
    /\ \E tableName \in TemplateNames : createTable(tableName)
TemplateString ==
    /\ calls < MaxTemplateCalls /\ tableBuilder.columns = <<>>
    /\ \E name \in TemplateNames : string(name)
TemplateDefaultTo ==
    calls < MaxTemplateCalls /\ \E value \in TemplateDefaults : defaultTo(value)
TemplateRaw ==
    /\ calls < MaxTemplateCalls /\ tableBuilder.raws = <<>>
    /\ \E statement \in TemplateRaws : raw(statement)
TemplateCallbackReturns == calls < MaxTemplateCalls /\ callbackReturns
TemplateDropTable ==
    /\ calls < MaxTemplateCalls /\ whereConditions = <<>>
    /\ \E tableName \in TemplateNames : dropTable(tableName)
TemplateRun == calls < MaxTemplateCalls /\ run

NextTemplate ==
    \/ TemplateWhere
    \/ TemplateCount
    \/ TemplateCreateTable
    \/ TemplateString
    \/ TemplateDefaultTo
    \/ TemplateRaw
    \/ TemplateCallbackReturns
    \/ TemplateDropTable
    \/ TemplateRun

SpecTemplate == Init /\ [][NextTemplate]_vars

-----------------------------------------------------------------------------
(* Reading a run() step: the begin call it made, if any.                   *)

RunStep == last'.op = "run" /\ calls' = calls + 1
BeginCalls == Len(postgres'.begun) - Len(postgres.begun)
Transaction == postgres'.begun[Len(postgres'.begun)]
\* The SQL text the template strings of a begin call stand for.
BatchText(call) == Join(call.strings, Q)

-----------------------------------------------------------------------------
(* C12: SchemaBuilder.run() empties the change set if and only if the      *)
(* transaction succeeded; when the transaction rejects, the change set is  *)
(* exactly as it was before the call and run() rejects with an error whose *)
(* message is the original failure text followed by the generated SQL.     *)

RunKeepsChangesOnFailure ==
    RunStep =>
        IF BeginCalls = 1 /\ Transaction.outcome = "COMMIT"
        THEN changes' = <<>> /\ last'.error = ""
        ELSE /\ changes' = changes
             /\ BeginCalls = 1 =>
                    /\ last'.error # ""
                    /\ last'.message = <<Transaction.outcome, "\n", "\n", "SQL: ">>
                                       \o BatchText(Transaction)

C12_RunClearsOnlyOnSuccess == [][RunKeepsChangesOnFailure]_vars

\* run() rejected with two entries queued, and both are still queued.
C12_Witness ==
    /\ last.op = "run"
    /\ last.error # ""
    /\ Len(changes) = 2
    /\ Len(postgres.begun) = 1
    /\ postgres.begun[1].outcome = "PostgresError"

-----------------------------------------------------------------------------
(* C13: every run() with pending changes makes exactly one begin() call,   *)
(* with one batch whose text is the statements of every queued entry       *)
(* (createTable, alterTable, renameTable, dropTable) in the order of the   *)
(* calls that queued them; nothing is reordered, dropped or sent in a      *)
(* second transaction, and a run() with nothing queued calls no executor.  *)

\* The text of one queued entry: the string, or the builder's statements.
EntryText(entry) ==
    IF entry.typeof = "string" THEN entry.text ELSE Join(toSQL(entry.tableBuilder), NL)

QueuedText(entries) == Join([i \in 1..Len(entries) |-> EntryText(entries[i])], NL)

QueueingMethods == {"createTable", "alterTable", "renameTable", "dropTable"}

RunSendsOneBatch ==
    RunStep =>
        IF changes = <<>> THEN BeginCalls = 0
        ELSE BeginCalls = 1 /\ BatchText(Transaction) = QueuedText(changes)

\* A queueing call puts its entry behind the entries queued before it, and
\* no call but run() reaches the executor.
QueueKeepsCallOrder ==
    ~RunStep =>
        /\ BeginCalls = 0
        /\ IF last'.op \in QueueingMethods /\ last'.error = ""
           THEN /\ Len(changes') = Len(changes) + 1
                /\ SubSeq(changes', 1, Len(changes)) = changes
                /\ tableBuilder.mode # "none" =>
                       changes'[Len(changes')].tableBuilder = tableBuilder
           ELSE changes' = changes

C13_RunSendsAllInOrder == [][RunSendsOneBatch /\ QueueKeepsCallOrder]_vars

\* A committed batch that created a table with a column and then renamed it.
C13_Witness ==
    /\ last.op = "run"
    /\ Len(postgres.begun) = 1
    /\ postgres.begun[1].outcome = "COMMIT"
    /\ Occurs(BatchText(postgres.begun[1]), "varchar")
    /\ Occurs(BatchText(postgres.begun[1]), "rename to")
    /\ \E i \in 1..Len(postgres.tables) : postgres.tables[i].k = tableU

-----------------------------------------------------------------------------
(* C14: on a create-mode TableBuilder, renameColumn(from, to) and          *)
(* alterColumn(name, changes) naming a column that is not in the pending   *)
(* column map throw at once and leave the pending columns, the indices and *)
(* the queued operations unchanged; on an alter-mode builder the same      *)
(* calls do not throw and append exactly one AlterOperation.               *)

Absent(name) == tableBuilder.mode # "none" /\ ~MapHas(tableBuilder.columns, name)

\* What a call on an absent column must do; operation is the AlterOperation
\* an alter-mode builder has to queue for it.
AbsentColumnOutcome(operation) ==
    IF tableBuilder.mode = "create"
    THEN /\ last'.error # ""
         /\ tableBuilder'.columns = tableBuilder.columns
         /\ tableBuilder'.indices = tableBuilder.indices
         /\ tableBuilder'.operations = tableBuilder.operations
    ELSE /\ last'.error = ""
         /\ tableBuilder'.operations = Append(tableBuilder.operations, operation)

RenameOfAbsentColumn ==
    \A from \in ColumnNames, to \in ColumnNames :
        (Absent(from) /\ renameColumn(from, to)) =>
            AbsentColumnOutcome([type |-> "renameColumn", from |-> from, to |-> to])

AlterOfAbsentColumn ==
    \A name \in ColumnNames, changed \in ChangesInputs :
        (Absent(name) /\ alterColumn(name, changed)) =>
            AbsentColumnOutcome([type |-> "alterColumn", name |-> name, changes |-> changed])

C14_AbsentColumnCalls == [][RenameOfAbsentColumn /\ AlterOfAbsentColumn]_vars

\* A create-mode builder with a column and an index right after a throw.
C14_Witness ==
    /\ tableBuilder.mode = "create"
    /\ last.op \in {"renameColumn", "alterColumn"}
    /\ last.error # ""
    /\ Len(tableBuilder.columns) = 1
    /\ Len(tableBuilder.indices) = 1

\* An alter-mode builder that queued the operation of such a call.
C14_WitnessAlter ==
    /\ tableBuilder.mode = "alter"
    /\ last.op = "alterColumn"
    /\ last.error = ""
    /\ Len(tableBuilder.operations) = 2

-----------------------------------------------------------------------------
(* C15: running the toSQL() of a createTable definition against the empty  *)
(* database and then the toSQL() of an alterTable that renames or drops    *)
(* columns declared by the first leaves a live table whose column set,     *)
(* types and nullability are those of the definition obtained by applying  *)
(* the same renames and drops to the in-memory create definition.          *)

\* Column set, types and nullability of an in-memory definition.
DefinitionOf(b) ==
    {[name |-> b.columns[i].k, type |-> b.columns[i].v.type,
      nullable |-> Truthy(b.columns[i].v.nullable)] : i \in 1..Len(b.columns)}

\* Column set, types and nullability of a live table; none when it is missing.
LiveOf(tables, name) ==
    IF ~MapHas(tables, name) THEN {}
    ELSE LET cols == MapGet(tables, name)
         IN {[name |-> cols[i].k, type |-> cols[i].v.type,
              nullable |-> cols[i].v.nullable] : i \in 1..Len(cols)}

\* A run() whose batch reached the database and was executed by it.
Applied == RunStep /\ BeginCalls = 1 /\ Transaction.outcome # "CONNECTION_CLOSED"

LiveMatchesDefinition ==
    Applied =>
        LET b == changes[1].tableBuilder
        IN LiveOf(postgres'.tables, tableT) =
              DefinitionOf(IF b.mode = "create" THEN b
                           ELSE ApplyTo(AsDefined(tableT, MapGet(postgres.tables, tableT)),
                                        b.operations))

C15_RoundTrip == [][LiveMatchesDefinition]_vars

-----------------------------------------------------------------------------
(* C16: for every identifier that contains a double quote, at whatever     *)
(* position, un-quoting what escapeIdentifier returns for it (split at the *)
(* separators between quoted segments, strip the quotes around each        *)
(* segment, turn every doubled quote inside into one) gives the identifier *)
(* back.                                                                   *)

\* One segment: a quoted one up to its closing quote, or a bare `*`.
ReadSegment(text) ==
    IF text = <<>> THEN NoName
    ELSE IF Head(text) = DQ
    THEN LET end == QuotedEnd(text, 2)
         IN IF end = 0 THEN NoName
            ELSE Name(Undouble(SubSeq(text, 2, end - 1), DQ),
                      SubSeq(text, end + 1, Len(text)))
    ELSE IF Head(text) = "*" THEN Name(<<"*">>, Tail(text))
    ELSE NoName

RECURSIVE Unquote(_)
Unquote(text) ==
    LET id == ReadSegment(text)
    IN IF ~id.ok THEN NoName
       ELSE IF id.rest = <<>> THEN id
       ELSE IF Head(id.rest) # "." THEN NoName
       ELSE LET more == Unquote(Tail(id.rest))
            IN IF more.ok THEN Name(id.name \o <<".">> \o more.name, <<>>) ELSE NoName

\* toSql() returned the statement of a builder that selects one plain column.
OneColumnSelected ==
    ToSqlReturned /\ Len(selectColumns) = 1 /\ ~selectColumns[1].json

C16_QuoteRoundTrip ==
    (OneColumnSelected /\ Occurs(selectColumns[1].column, DQ)) =>
        Unquote(ColumnsOf(last.sql)) = Name(selectColumns[1].column, <<>>)

-----------------------------------------------------------------------------
(* Reading a literal back: NULL, TRUE, FALSE, a decimal number, a string   *)
(* between single quotes with every doubled quote read as one, and         *)
(* ARRAY[...] with its elements separated by commas.                       *)

NoValue == [ok |-> FALSE, value |-> Undefined, rest |-> <<>>]
Value(v, rest) == [ok |-> TRUE, value |-> v, rest |-> rest]

DigitOf(atom) == (CHOOSE i \in 1..10 : DigitAtoms[i] = atom) - 1
IsDigit(atom) == \E i \in 1..10 : DigitAtoms[i] = atom

RECURSIVE DigitRun(_)
DigitRun(text) ==
    IF text = <<>> \/ ~IsDigit(Head(text)) THEN 0 ELSE 1 + DigitRun(Tail(text))

RECURSIVE NumberOf(_)
NumberOf(ds) ==
    IF ds = <<>> THEN 0 ELSE 10 * NumberOf(SubSeq(ds, 1, Len(ds) - 1)) + DigitOf(ds[Len(ds)])

ReadNumber(text, sign) ==
    LET n == DigitRun(text)
    IN IF n = 0 THEN NoValue
       ELSE Value(Num(sign * NumberOf(SubSeq(text, 1, n))), SubSeq(text, n + 1, Len(text)))

ReadString(text) ==
    LET end == ClosingQuote(text, 2, "'")
    IN IF end = 0 THEN NoValue
       ELSE Value(Text(Undouble(SubSeq(text, 2, end - 1), "'")),
                  SubSeq(text, end + 1, Len(text)))

RECURSIVE ReadValue(_)
RECURSIVE ReadElements(_, _)

ReadValue(text) ==
    IF text = <<>> THEN NoValue
    ELSE CASE Head(text) = "NULL" -> Value(Null, Tail(text))
           [] Head(text) = "TRUE" -> Value(Bool(TRUE), Tail(text))
           [] Head(text) = "FALSE" -> Value(Bool(FALSE), Tail(text))
           [] Head(text) = "'" -> ReadString(text)
           [] Head(text) = "-" -> ReadNumber(Tail(text), -1)
           [] Head(text) = "ARRAY[" ->
                IF Len(text) >= 2 /\ text[2] = "]"
                THEN Value(Arr(<<>>), SubSeq(text, 3, Len(text)))
                ELSE ReadElements(Tail(text), <<>>)
           [] OTHER -> ReadNumber(text, 1)

\* The elements of an array from text on, after the elements read so far.
ReadElements(text, sofar) ==
    LET one == ReadValue(text)
    IN IF ~one.ok \/ one.rest = <<>> THEN NoValue
       ELSE IF Head(one.rest) = "]"
       THEN Value(Arr(Append(sofar, one.value)), Tail(one.rest))
       ELSE IF Head(one.rest) = ","
       THEN ReadElements(Tail(one.rest), Append(sofar, one.value))
       ELSE NoValue

\* The literal after DEFAULT in a column definition, up to its type cast.
DefaultLiteral(text) == SubSeq(text, Cut(text, {"DEFAULT"}) + 2, Cut(text, {"::"}) - 1)

\* The builder holds one column with a default value.
DefaultSet ==
    /\ tableBuilder.mode = "create"
    /\ Len(tableBuilder.columns) = 1
    /\ tableBuilder.columns[1].v.defaultValue # Undefined

DefaultValue == tableBuilder.columns[1].v.defaultValue
DefaultText == DefaultLiteral(columnDefs(tableBuilder)[1])

-----------------------------------------------------------------------------
(* C17: for every supported value (null, a boolean, a number, a string, an *)
(* array or nested array of these) the literal escapeValue writes reads    *)
(* back as a value equal to the input, the one exception being the exact   *)
(* string now(), which is written without quotes.                          *)

C17_ValueRoundTrip ==
    (DefaultSet /\ DefaultValue # Text(now)) =>
        ReadValue(DefaultText) = Value(DefaultValue, <<>>)

\* A value that holds neither the string now() nor NaN, at any depth.
RECURSIVE Readable(_)
Readable(value) ==
    /\ value # Text(now)
    /\ value # NotANumber
    /\ value.t = "array" => \A i \in 1..Len(value.a) : Readable(value.a[i])

\* C17, for the values that hold neither the string now() nor NaN at any
\* depth: the literal escapeValue writes reads back as the input.
C17_ReadableValuesReadBack ==
    (DefaultSet /\ Readable(DefaultValue)) =>
        ReadValue(DefaultText) = Value(DefaultValue, <<>>)

\* A nested array with a quote inside a string element was written.
C17_Witness ==
    /\ DefaultSet
    /\ DefaultValue = Arr(<<Arr(<<Num(1), Text(<<"'">>)>>), Text(<<"'", ",", "]">>)>>)
    /\ ReadValue(DefaultText).ok


-----------------------------------------------------------------------------
(* What a call of migrate() or up() did, read from the state before and    *)
(* after the step.                                                         *)

MigrateStep == last'.op = "migrate" /\ calls' = calls + 1
UpStep == last'.op = "up" /\ calls' = calls + 1

RowNames(rows) == [i \in 1..Len(rows) |-> rows[i].name]
FileNamesOf(files) == [i \in 1..Len(files) |-> files[i].name]

\* The files whose name is not recorded when the call starts, in folder order.
PendingFiles == SelectSeq(folder, LAMBDA file : ~Recorded(postgres.migrations, file.name))

\* The DDL batches the call sent, and the rows it added.
NewBatches == SubSeq(postgres'.begun, Len(postgres.begun) + 1, Len(postgres'.begun))
NewRows == SubSeq(postgres'.migrations, Len(postgres.migrations) + 1,
                  Len(postgres'.migrations))

\* The template strings of the batch the up function of a file leads to.
BatchOf(file) == createTemplateStringsArray(Join(schemaToSQL(upOf(file, <<>>).changes), NL))

\* The names the call sent an INSERT for.
InsertedNames(calls_) ==
    LET inserts == SelectSeq(calls_, LAMBDA c : c.sql = recordSql)
    IN [i \in 1..Len(inserts) |-> inserts[i].params[1]]

\* The rows that were there before the call are still there, unchanged.
HistoryKept ==
    /\ Len(postgres'.migrations) >= Len(postgres.migrations)
    /\ SubSeq(postgres'.migrations, 1, Len(postgres.migrations)) = postgres.migrations

\* The call worked through the pending files in order: its i-th batch is the
\* batch of the i-th pending file, and its i-th new row records that file
\* after the batch committed.
WorkedThroughPending ==
    /\ Len(NewRows) <= Len(NewBatches)
    /\ Len(NewBatches) <= Len(PendingFiles)
    /\ \A i \in 1..Len(NewBatches) : NewBatches[i].strings = BatchOf(PendingFiles[i])
    /\ \A i \in 1..Len(NewRows) :
          /\ NewRows[i].name = PendingFiles[i].name
          /\ NewBatches[i].outcome = "COMMIT"

MigrateRunsPending ==
    MigrateStep =>
        /\ HistoryKept
        /\ WorkedThroughPending
        /\ last'.error = "" =>
              /\ RowNames(NewRows) = FileNamesOf(PendingFiles)
              /\ Len(NewBatches) = Len(PendingFiles)
              /\ InsertedNames(last'.raw) = FileNamesOf(PendingFiles)

(* C18: migrate() runs the up function of exactly the files whose name is  *)
(* not yet recorded, in folder order, records each one after its DDL batch *)
(* committed, and sends nothing for a recorded file; when every file is    *)
(* recorded it sends no batch and leaves the history as it is.             *)
C18_MigrateRunsUnrecorded == [][MigrateRunsPending]_vars

\* A migrate() over a folder of two recorded files resolved without an
\* INSERT, after an earlier migrate() had applied both.
C18_Witness ==
    /\ last.op = "migrate" /\ last.error = ""
    /\ Len(folder) = 2
    /\ RowNames(postgres.migrations) = FileNamesOf(folder)
    /\ Len(postgres.begun) = 2
    /\ calls = 3
    /\ InsertedNames(last.raw) = <<>>
    /\ Len(last.raw) = 2


-----------------------------------------------------------------------------
\* The files a call works through: migrate() the unrecorded ones, up() the
\* one it finds after the latest row.
NextIndex == nextFile(folder, LastRow(postgres.migrations))
Attempted ==
    IF MigrateStep THEN PendingFiles
    ELSE IF folder = <<>> \/ NextIndex = 0 THEN <<>>
    ELSE <<folder[NextIndex]>>

\* The text run() puts into the error it throws for a batch that ended as
\* outcome.
RunError(file, outcome) ==
    <<outcome, "\n", "\n", "SQL: ">> \o Join(schemaToSQL(upOf(file, <<>>).changes), NL)

\* The call stopped at the i-th file it works through: nothing was sent for
\* a later file, and neither this file nor a later one got a row.
StoppedAt(i) ==
    /\ last'.error # ""
    /\ Len(NewBatches) <= i
    /\ InsertedNames(last'.raw) = FileNamesOf(SubSeq(Attempted, 1, i - 1))
    /\ RowNames(NewRows) = FileNamesOf(SubSeq(Attempted, 1, i - 1))
    /\ \A j \in i..Len(Attempted) : ~Recorded(postgres'.migrations, Attempted[j].name)
    /\ HistoryKept

\* The DDL batch of the i-th file did not commit.
RunFailedAt(i) == i <= Len(NewBatches) /\ NewBatches[i].outcome # "COMMIT"

\* The call came to the i-th file with every earlier one applied, and the up
\* function of the i-th file throws.
UpThrewAt(i) ==
    /\ i = Len(NewBatches) + 1
    /\ i = Len(NewRows) + 1
    /\ \A j \in 1..Len(NewBatches) : NewBatches[j].outcome = "COMMIT"
    /\ Attempted[i].up = "throws"

FailureStopsTheCall ==
    (MigrateStep \/ UpStep) =>
        /\ Len(NewBatches) <= Len(Attempted)
        /\ \A i \in 1..Len(NewBatches) : NewBatches[i].strings = BatchOf(Attempted[i])
        /\ \A i \in 1..Len(Attempted) :
              /\ RunFailedAt(i) =>
                    /\ StoppedAt(i)
                    /\ last'.error = "Error"
                    /\ last'.message = RunError(Attempted[i], NewBatches[i].outcome)
              /\ UpThrewAt(i) =>
                    /\ StoppedAt(i)
                    /\ last'.error = "up failed"

(* C19: when the up function of a migration throws, or its DDL batch does  *)
(* not commit, during migrate() or up(), the call rejects with that error  *)
(* (for a batch: the error of run(), which carries the text of the         *)
(* original), no row is written for that migration, nothing is sent for a  *)
(* later file, and the rows of earlier migrations stay as they were.       *)
C19_FailureStopsTheCall == [][FailureStopsTheCall]_vars

\* migrate() applied the first file and was rejected by the failing batch
\* of the second one, with a third file still unrecorded.
C19_Witness ==
    /\ last.op = "migrate" /\ last.error = "Error"
    /\ Len(folder) = 3
    /\ RowNames(postgres.migrations) = <<folder[1].name>>
    /\ Len(postgres.begun) = 2
    /\ postgres.begun[2].outcome = "PostgresError"
    /\ calls = 2

\* up() was rejected because the up function of the next file threw.
C19_WitnessUp ==
    /\ last.op = "up" /\ last.error = "up failed"
    /\ postgres.migrations # <<>>


-----------------------------------------------------------------------------
\* The file up() is to run: the first file when the history is empty, else
\* the first file whose name sorts after the most recently applied one.
ExpectedNext ==
    IF postgres.migrations = <<>> THEN 1
    ELSE LET later == {i \in 1..Len(folder) :
                          StringGreater(folder[i].name, LastRow(postgres.migrations).name)}
         IN IF later = {} THEN 0 ELSE CHOOSE i \in later : \A j \in later : i <= j

\* up() ran the file: it called its up function, sent its batch when the
\* function returned, and recorded it when it resolved.
RanOnly(file) ==
    /\ IF file.up = "throws" THEN NewBatches = <<>> /\ last'.error = "up failed"
       ELSE Len(NewBatches) = 1 /\ NewBatches[1].strings = BatchOf(file)
    /\ last'.error = "" => NewRows = <<[name |-> file.name,
                                        migration_time |-> Len(postgres.migrations) + 1]>>
    /\ last'.error # "" => NewRows = <<>>
    /\ HistoryKept

RanNothing ==
    /\ NewBatches = <<>>
    /\ postgres'.migrations = postgres.migrations
    /\ last'.error = ""

UpRunsNext ==
    UpStep => IF PendingFiles # <<>> THEN ExpectedNext # 0 /\ RanOnly(folder[ExpectedNext])
              ELSE RanNothing

(* C20: whenever a migration file is not yet applied, the history empty or *)
(* not, up() runs exactly one migration, the first file whose name sorts   *)
(* after the most recently applied one (the first file when the history is *)
(* empty), and records it; with no file pending it runs nothing and leaves *)
(* the history unchanged.                                                  *)
C20_UpRunsNext == [][UpRunsNext]_vars

\* The same for the calls of up() that find a recorded migration.
UpRunsNextAfterRecorded == [][postgres.migrations # <<>> => UpRunsNext]_vars

\* up() ran the second file after the first had been applied.
UpAppliedSecond ==
    /\ last.op = "up" /\ last.error = ""
    /\ Len(folder) >= 2
    /\ RowNames(postgres.migrations) = <<folder[1].name, folder[2].name>>
    /\ InsertedNames(last.raw) = <<folder[2].name>>


-----------------------------------------------------------------------------
DownStep == last'.op = "down" /\ calls' = calls + 1

\* The index in the folder of the file of the most recently applied
\* migration, 0 when the history is empty or the file is missing.
LatestFile ==
    IF postgres.migrations = <<>> THEN 0
    ELSE fileNamed(folder, LastRow(postgres.migrations).name)

\* The template strings of the batch the down function of a file leads to.
DownBatchOf(file) ==
    createTemplateStringsArray(Join(schemaToSQL(downOf(file, <<>>).changes), NL))

\* The history without the row of the most recently applied migration.
WithoutLatest ==
    SelectSeq(postgres.migrations, LAMBDA row : row # LastRow(postgres.migrations))

\* down() ran the down function of the file: it sent its batch when the
\* function returned, deleted the one row when it resolved, and left the
\* history alone when it rejected.
RevertedOnly(file) ==
    /\ IF file.down = "throws" THEN NewBatches = <<>> /\ last'.error = "down failed"
       ELSE Len(NewBatches) = 1 /\ NewBatches[1].strings = DownBatchOf(file)
    /\ (NewBatches # <<>> /\ NewBatches[1].outcome # "COMMIT") => last'.error = "Error"
    /\ last'.error = "" => postgres'.migrations = WithoutLatest
    /\ last'.error # "" => postgres'.migrations = postgres.migrations

DownChangedNothing ==
    /\ postgres' = postgres
    /\ last'.error = ""

DownUndoesLatest ==
    DownStep => IF LatestFile = 0 THEN DownChangedNothing
                ELSE RevertedOnly(folder[LatestFile])

(* C21: down() runs the down function of the most recently applied         *)
(* migration and then deletes exactly that one record; with an empty       *)
(* history or a missing file it changes nothing; when the down function or *)
(* its DDL fails it rejects and the record remains.  A migrate() followed  *)
(* by down() over one migration therefore ends with the empty history.     *)
C21_DownUndoesLatest == [][DownUndoesLatest]_vars

\* migrate() applied the one file of the folder and down() undid it.
C21_Witness ==
    /\ last.op = "down" /\ last.error = ""
    /\ calls = 3
    /\ Len(folder) = 1
    /\ Len(postgres.begun) = 2
    /\ postgres.begun[1].outcome = "COMMIT" /\ postgres.begun[2].outcome = "COMMIT"
    /\ postgres.migrations = <<>>
    /\ postgres.tables = <<>>

\* down() found the file of the latest migration missing and resolved.
DownMissingFile ==
    /\ last.op = "down" /\ last.error = ""
    /\ folder # <<>>
    /\ postgres.migrations # <<>>
    /\ fileNamed(folder, LastRow(postgres.migrations).name) = 0
    /\ Len(last.raw) = 2

\* down() was rejected by its failing batch and the record is still there.
DownBatchFailed ==
    /\ last.op = "down" /\ last.error = "Error"
    /\ postgres.migrations # <<>>
    /\ postgres.begun[Len(postgres.begun)].outcome = "PostgresError"


-----------------------------------------------------------------------------
(* What a WHERE clause means to the database: which rows it matches, given *)
(* the parameters bound to its placeholders.  A row gives each column a    *)
(* number or NULL; a comparison with NULL is not true.                     *)

RowColumns == {<<"a">>, <<"b">>, <<"x">>}
RowValues == {Null, Num(1), Num(3), Num(9)}
Rows == [RowColumns -> RowValues]

Comparisons == {"=", "!=", "<", "<=", ">", ">="}

Compare(left, operator, right) ==
    /\ left.t = "number" /\ right.t = "number"
    /\ CASE operator = "=" -> left.n = right.n
         [] operator = "!=" -> left.n # right.n
         [] operator = "<" -> left.n < right.n
         [] operator = "<=" -> left.n <= right.n
         [] operator = ">" -> left.n > right.n
         [] operator = ">=" -> left.n >= right.n

\* left is one of the numbers listed.
Among(left, listed) ==
    left.t = "number" /\ \E i \in 1..Len(listed) : Compare(left, "=", listed[i])

\* A column reference: an unquoted letter or a quoted identifier, possibly
\* qualified by a table name; its column is the last part.
ReadColumnRef(text) ==
    IF text = <<>> THEN NoName
    ELSE IF Head(text) = DQ
    THEN The({IF head.ok /\ head.rest # <<>> /\ Head(head.rest) = "."
              THEN ReadName(Tail(head.rest))
              ELSE head : head \in {ReadName(text)}})
    ELSE IF <<Head(text)>> \in RowColumns THEN Name(<<Head(text)>>, Tail(text))
    ELSE NoName

\* A condition was read: whether the row satisfies it, the text after it
\* and the parameters it left.
NoCondition == [ok |-> FALSE, holds |-> FALSE, rest |-> <<>>, params |-> <<>>]
Condition(holds, rest, params) == [ok |-> TRUE, holds |-> holds, rest |-> rest, params |-> params]

\* The number of placeholders of the list `?,?,...)` that text starts with,
\* -1 when text does not start with such a list.  The list () is not SQL.
RECURSIVE ListLength(_)
ListLength(text) ==
    IF Len(text) >= 2 /\ text[1] = "?" /\ text[2] = ")" THEN 1
    ELSE IF Len(text) >= 3 /\ text[1] = "?" /\ text[2] = ","
    THEN The({IF n < 0 THEN -1 ELSE n + 1 : n \in {ListLength(SubSeq(text, 3, Len(text)))}})
    ELSE -1

\* `column operator operand`, read after the column.
ReadOperand(value, text, params) ==
    LET after == TrimLeft(text)
        operator == Head(after)
        operand == TrimLeft(Tail(after))
    IN IF after = <<>> THEN NoCondition
       ELSE IF operator \in {"IS NULL", "IS NOT NULL"}
       THEN Condition((value = Null) = (operator = "IS NULL"), Tail(after), params)
       ELSE IF operator \in Comparisons
       THEN IF operand # <<>> /\ Head(operand) = "?" /\ params # <<>>
            THEN Condition(Compare(value, operator, Head(params)), Tail(operand),
                           Tail(params))
            ELSE NoCondition
       ELSE IF operator = "= ANY("
       THEN IF Len(operand) >= 2 /\ operand[1] = "?" /\ operand[2] = ")"
               /\ params # <<>> /\ Head(params).t = "array"
            THEN Condition(Among(value, Elements(Head(params))),
                           SubSeq(operand, 3, Len(operand)), Tail(params))
            ELSE NoCondition
       ELSE IF operator \in {"IN", "NOT IN"}
       THEN IF operand # <<>> /\ Head(operand) = "("
            THEN The({IF n < 1 \/ n > Len(params) THEN NoCondition
                      ELSE Condition(value.t = "number"
                                     /\ (Among(value, SubSeq(params, 1, n))
                                         = (operator = "IN")),
                                     SubSeq(operand, 2 * n + 2, Len(operand)),
                                     SubSeq(params, n + 1, Len(params))) :
                         n \in {ListLength(Tail(operand))}})
            ELSE NoCondition
       ELSE NoCondition

\* One condition: a comparison, or a parenthesised comparison.
ReadCondition(text, params, row) ==
    IF text # <<>> /\ Head(text) = "("
    THEN The({IF ~ref.ok THEN NoCondition
              ELSE The({IF inner.ok /\ TrimLeft(inner.rest) # <<>>
                           /\ Head(TrimLeft(inner.rest)) = ")"
                        THEN [inner EXCEPT !.rest = Tail(TrimLeft(@))]
                        ELSE NoCondition :
                           inner \in {ReadOperand(row[ref.name], ref.rest, params)}}) :
                 ref \in {ReadColumnRef(Tail(text))}})
    ELSE The({IF ~ref.ok THEN NoCondition
              ELSE ReadOperand(row[ref.name], ref.rest, params) :
                 ref \in {ReadColumnRef(text)}})

\* c1 AND c2 OR c3 ...: AND binds tighter than OR.  `all` is the value of
\* the conjunction being read, `any` that of the disjuncts before it.
RECURSIVE ReadConditions(_, _, _, _, _)
ReadConditions(text, params, row, any, all) ==
    The({IF ~c.ok THEN "error"
         ELSE The({IF rest = <<>>
                   THEN (IF c.params # <<>> THEN "error"
                         ELSE IF any \/ (all /\ c.holds) THEN "match" ELSE "no match")
                   ELSE IF Head(rest) = "AND"
                   THEN ReadConditions(TrimLeft(Tail(rest)), c.params, row, any,
                                       all /\ c.holds)
                   ELSE IF Head(rest) = "OR"
                   THEN ReadConditions(TrimLeft(Tail(rest)), c.params, row,
                                       any \/ (all /\ c.holds), TRUE)
                   ELSE "error" : rest \in {TrimLeft(c.rest)}}) :
            c \in {ReadCondition(text, params, row)}})

\* What the clause `WHERE ...` with these parameters does with the row.
Matches(clause, params, row) ==
    IF clause = <<>> \/ Head(clause) # "WHERE" THEN "error"
    ELSE ReadConditions(TrimLeft(Tail(clause)), params, row, FALSE, TRUE)

\* The rows a clause matches, or "error" when the database rejects it.
Matched(clause, params) == [row \in Rows |-> Matches(clause, params, row)]

\* The WHERE clause update() sent, and the parameters bound to it.
UpdateWhere == WhereOf(last.raw[1].sql)
UpdateWhereParams ==
    LastN(last.raw[1].params, PlaceholdersIn(UpdateWhere, 1, Len(UpdateWhere) + 1))

QueryWhere == buildWhereSql("query")

UpdateMatchesLikeQuery ==
    (last.op = "update" /\ last.error = "" /\ QueryWhere.ok) =>
        Matched(UpdateWhere, UpdateWhereParams) = Matched(QueryWhere.sql, QueryWhere.params)

(* C22: for every accumulated condition list the WHERE clause update()     *)
(* emits matches the same rows as the WHERE clause toSql() and delete()    *)
(* emit for it: IN tests membership in the array and NOT IN tests          *)
(* non-membership in both.                                                 *)
C22_UpdateWhereMatchesQueryWhere == UpdateMatchesLikeQuery

\* The same for the condition lists without a NOT IN condition and without an
\* empty array (toSql() writes the empty array as "IN ()", which is not SQL).
NoNotIn ==
    \A i \in 1..Len(whereConditions) :
        whereConditions[i].kind = "column" =>
            /\ whereConditions[i].operator # "NOT IN"
            /\ whereConditions[i].value # Arr(<<>>)

UpdateMatchesLikeQueryWithoutNotIn == NoNotIn => UpdateMatchesLikeQuery

\* update() with an IN condition matched a row that toSql() matches too.
UpdateWithInMatched ==
    /\ last.op = "update" /\ last.error = "" /\ QueryWhere.ok
    /\ \E i \in 1..Len(whereConditions) : whereConditions[i].operator = "IN"
    /\ \E row \in Rows : Matches(UpdateWhere, UpdateWhereParams, row) = "match"
    /\ \E row \in Rows : Matches(UpdateWhere, UpdateWhereParams, row) = "no match"


-----------------------------------------------------------------------------
\* The conditions with IN or NOT IN, and whether each of them has an array.
IsArrayCondition(c) == c.kind = "column" /\ c.operator \in ArrayOperators
ArrayConditions == SelectSeq(whereConditions, IsArrayCondition)
ArraysGiven == \A i \in 1..Len(ArrayConditions) : ArrayConditions[i].value.t = "array"

\* The parameters of the conditions when an IN or NOT IN condition binds its
\* array whole (single) or element by element.
RECURSIVE WhereParamsWith(_, _)
WhereParamsWith(conds, single) ==
    IF conds = <<>> THEN <<>>
    ELSE (IF IsArrayCondition(Head(conds)) /\ single THEN <<Head(conds).value>>
          ELSE DeclaredParams(Head(conds)))
         \o WhereParamsWith(Tail(conds), single)

\* The number of placeholders the conditions need in each mode.
RECURSIVE ElementCount(_)
ElementCount(conds) ==
    IF conds = <<>> THEN 0 ELSE Len(Head(conds).value.a) + ElementCount(Tail(conds))

CountOf(text, atom) == Cardinality({i \in 1..Len(text) : text[i] = atom})

\* The statement a compiling operation produced.
CompiledStatement ==
    IF last.op = "toSql" THEN [sql |-> last.sql, params |-> last.params]
    ELSE last.raw[1]
CompiledWhere == WhereOf(CompiledStatement.sql)
CompiledWhereParams ==
    LastN(CompiledStatement.params, Len(CompiledStatement.params)
              - PlaceholdersIn(CompiledStatement.sql, 1,
                               Cut(CompiledStatement.sql, {"WHERE"})))

Compiles ==
    \/ last.op \in {"toSql", "count"}
    \/ last.op \in {"update", "delete"} /\ whereConditions # <<>>

ArrayPlaceholders ==
    (ArraysGiven /\ Compiles) =>
        /\ last.error = ""
        /\ PlaceholdersIn(CompiledStatement.sql, 1, Len(CompiledStatement.sql) + 1)
               = Len(CompiledStatement.params)
        /\ IF last.op = "update"
           THEN /\ CountOf(CompiledWhere, "= ANY(") = Len(ArrayConditions)
                /\ CountOf(CompiledWhere, "IN") + CountOf(CompiledWhere, "NOT IN") = 0
                /\ CompiledWhereParams = WhereParamsWith(whereConditions, TRUE)
           ELSE /\ CountOf(CompiledWhere, "= ANY(") = 0
                /\ CountOf(CompiledWhere, "IN") + CountOf(CompiledWhere, "NOT IN")
                       = Len(ArrayConditions)
                /\ CompiledWhereParams = WhereParamsWith(whereConditions, FALSE)
                /\ PlaceholdersIn(CompiledWhere, 1, Len(CompiledWhere) + 1)
                       = Len(whereConditions) - Len(ArrayConditions)
                         - Len(SelectSeq(whereConditions,
                                         LAMBDA c : c.kind = "column"
                                                    /\ c.operator \in NullOperators))
                         + ElementCount(ArrayConditions)

(* C23: in update() every IN or NOT IN condition contributes one `?`, in   *)
(* `= ANY(?)`, bound to the whole array as one parameter, while toSql(),   *)
(* count() and delete() expand it to one placeholder and one parameter per *)
(* element; in both modes compilation does not fail and the placeholders   *)
(* are as many as the parameters for every array length, the empty array   *)
(* included.                                                               *)
C23_ArrayPlaceholders == ArrayPlaceholders

\* update() compiled an IN condition over the empty array and one over a
\* two-element array.
C23_Witness ==
    /\ last.op = "update" /\ last.error = ""
    /\ \E i \in 1..Len(whereConditions) :
          IsArrayCondition(whereConditions[i]) /\ whereConditions[i].value = Arr(<<>>)
    /\ \E i \in 1..Len(whereConditions) :
          IsArrayCondition(whereConditions[i]) /\ whereConditions[i].value = Arr(<<1, 2>>)
    /\ CountOf(CompiledWhere, "= ANY(") = 2

\* delete() compiled an IN condition over the empty array.
DeleteWithEmptyArray ==
    /\ last.op = "delete" /\ last.error = ""
    /\ \E i \in 1..Len(whereConditions) :
          IsArrayCondition(whereConditions[i]) /\ whereConditions[i].value = Arr(<<>>)

-----------------------------------------------------------------------------
\* What a statement of toSQL() is recognised by.
Has(text, atom) == \E i \in 1..Len(text) : text[i] = atom
Contains(text, part) ==
    \E i \in 0..(Len(text) - Len(part)) : SubSeq(text, i + 1, i + Len(part)) = part

\* The keyword of the statement a changed field of alterColumn gives.
FieldKeyword(change) ==
    CASE change.k = "type" -> "SET DATA TYPE"
      [] change.k = "nullable" -> "NOT NULL"
      [] change.k = "defaultValue" -> "SET DEFAULT"
      [] change.k = "primary" ->
            IF Truthy(change.v) THEN "ADD PRIMARY KEY" ELSE "DROP CONSTRAINT IF EXISTS"
      [] change.k = "unique" ->
            IF Truthy(change.v) THEN "ADD UNIQUE" ELSE "DROP CONSTRAINT IF EXISTS"
      [] change.k = "check" -> "ADD CHECK"
      [] change.k = "references" -> "REFERENCES"
      [] change.k = "collate" -> "SET COLLATE"

\* The statements one issued operation has to give, each as the keyword and
\* the name it has to hold.
IssuedMarks(operation) ==
    CASE operation.type = "renameColumn" ->
            <<[keyword |-> "RENAME COLUMN", name |-> operation.from]>>
      [] operation.type = "dropColumn" ->
            <<[keyword |-> "DROP COLUMN", name |-> operation.name]>>
      [] operation.type = "dropIndex" ->
            <<[keyword |-> "DROP INDEX IF EXISTS", name |-> operation.name]>>
      [] operation.type = "alterColumn" ->
            [i \in 1..Len(operation.changes) |->
                [keyword |-> FieldKeyword(operation.changes[i]),
                 name |-> IF operation.changes[i].k = "check" THEN <<>>
                          ELSE operation.name]]

RECURSIVE OperationMarks(_)
OperationMarks(issued) ==
    IF issued = <<>> THEN <<>>
    ELSE IssuedMarks(Head(issued)) \o OperationMarks(Tail(issued))

\* The four groups of an alter-mode toSQL(), in their order.
AlterModeOrder ==
    tableBuilder.mode = "alter" =>
        \E statements \in {toSQL(tableBuilder)} :
        \E marks \in {OperationMarks(tableBuilder.operations)} :
            LET n == Len(tableBuilder.columns)
                m == Len(marks)
                r == Len(tableBuilder.raws)
            IN /\ Len(statements) = n + m + 1 + r
               /\ \A i \in 1..n :
                     /\ statements[i][1] = "ALTER TABLE"
                     /\ Contains(statements[i],
                                 <<"ADD COLUMN", " ">>
                                 \o escapeText(tableBuilder.columns[i].k) \o <<" ">>)
               /\ \A j \in 1..m :
                     /\ ~Has(statements[n + j], "ADD COLUMN")
                     /\ ~Has(statements[n + j], "CREATE")
                     /\ Has(statements[n + j], marks[j].keyword)
                     /\ Contains(statements[n + j], marks[j].name)
               /\ ~Has(statements[n + m + 1], "ALTER TABLE")
               /\ CountOf(statements[n + m + 1], "CREATE") = Len(tableBuilder.indices)
               /\ \A k \in 1..r : statements[n + m + 1 + k] = tableBuilder.raws[k]

\* The queue of operations and the raw statements grow at their ends only:
\* their order is the order of the calls.
IssueOrderKept ==
    (tableBuilder.mode = "alter" /\ calls' = calls + 1) =>
        /\ \/ tableBuilder'.operations = tableBuilder.operations
           \/ /\ Len(tableBuilder'.operations) = Len(tableBuilder.operations) + 1
              /\ SubSeq(tableBuilder'.operations, 1, Len(tableBuilder.operations))
                     = tableBuilder.operations
              /\ tableBuilder'.operations[Len(tableBuilder'.operations)].type = last'.op
        /\ \/ tableBuilder'.raws = tableBuilder.raws
           \/ /\ last'.op = "raw"
              /\ SubSeq(tableBuilder'.raws, 1, Len(tableBuilder.raws)) = tableBuilder.raws
              /\ Len(tableBuilder'.raws) = Len(tableBuilder.raws) + 1

(* C24: in alter mode toSQL() gives one ALTER TABLE ... ADD COLUMN for     *)
(* every pending column in the order of the map, then the statements of    *)
(* the queued operations in the order they were issued, an alterColumn     *)
(* with one statement for every changed field, then the index creation     *)
(* statements, then the raw statements in the order of the raw() calls.    *)
C24_AlterModeOrder == [](AlterModeOrder) /\ [][IssueOrderKept]_vars

\* An alter-mode builder that queued an alterColumn of two fields before a
\* dropColumn: three statements and the entry of the index definitions.
C24_Witness ==
    /\ tableBuilder.mode = "alter"
    /\ Len(tableBuilder.operations) = 2
    /\ tableBuilder.operations[1].type = "alterColumn"
    /\ Len(tableBuilder.operations[1].changes) = 2
    /\ tableBuilder.operations[2].type = "dropColumn"
    /\ Len(toSQL(tableBuilder)) = 4

\* An alter-mode builder with a pending column, an index and a raw statement.
AlterWithAllGroups ==
    /\ tableBuilder.mode = "alter"
    /\ Len(tableBuilder.columns) = 1
    /\ Len(tableBuilder.indices) = 1
    /\ Len(tableBuilder.raws) = 1

-----------------------------------------------------------------------------
\* The lines of the CREATE TABLE statement between its first line and the
\* closing line: one for every column when there is a column.
CreateLines(statement) ==
    LET lines == Split(statement, "\n")
    IN SubSeq(lines, 2, Len(lines) - 2)

Begins(text, part) == Len(text) >= Len(part) /\ SubSeq(text, 1, Len(part)) = part

\* The keywords of the constraints set on a definition.
ConstraintsSet(def) ==
    {IF Truthy(def.nullable) THEN "NULL" ELSE "NOT NULL"}
    \cup (IF def.defaultValue # Undefined THEN {"DEFAULT", "::"} ELSE {})
    \cup (IF Truthy(def.primary) THEN {"PRIMARY KEY"} ELSE {})
    \cup (IF Truthy(def.unique) THEN {"UNIQUE"} ELSE {})
    \cup (IF def.check # Undefined THEN {"CHECK"} ELSE {})
    \cup (IF def.references # Undefined THEN {"REFERENCES"} ELSE {})
    \cup (IF def.collate # Undefined THEN {"COLLATE"} ELSE {})

ConstraintKeywords ==
    {"NULL", "NOT NULL", "DEFAULT", "::", "PRIMARY KEY", "UNIQUE", "CHECK",
     "REFERENCES", "COLLATE"}

\* A column line without the literal of its default, which is the text
\* between DEFAULT and the type cast.
WithoutLiteral(line) ==
    IF Has(line, "DEFAULT") /\ Has(line, "::")
    THEN SubSeq(line, 1, Cut(line, {"DEFAULT"})) \o SubSeq(line, Cut(line, {"::"}), Len(line))
    ELSE line

\* The constraints a column line holds.
ConstraintsWritten(line) ==
    {keyword \in ConstraintKeywords : Has(WithoutLiteral(line), keyword)}

\* One CREATE TABLE statement, no ALTER statement, and a line for every
\* pending column in the order of the map; `inline` says which constraints
\* of the definition the line has to hold.
CreateModeLists(inline(_)) ==
    tableBuilder.mode = "create" =>
        \E statements \in {toSQL(tableBuilder)} :
            /\ tableBuilder.operations = <<>>
            /\ Begins(statements[1], <<"CREATE TABLE", " ">> \o escapeText(tableBuilder.tableName))
            /\ \A i \in 1..Len(statements) :
                  /\ CountOf(statements[i], "CREATE TABLE") = IF i = 1 THEN 1 ELSE 0
                  /\ ~Has(statements[i], "ALTER TABLE")
            /\ tableBuilder.columns # <<>> =>
                  \E lines \in {CreateLines(statements[1])} :
                      /\ Len(lines) = Len(tableBuilder.columns)
                      /\ \A i \in 1..Len(lines) :
                            /\ Begins(lines[i],
                                      escapeText(tableBuilder.columns[i].k)
                                      \o <<" ", tableBuilder.columns[i].v.type>>)
                            /\ ConstraintsWritten(lines[i]) = inline(tableBuilder.columns[i].v)

(* C25: in create mode toSQL() gives exactly one CREATE TABLE statement    *)
(* that lists every pending column once, in the order of the map, each     *)
(* with every constraint set on its definition inline (nullability,        *)
(* default with its type cast, primary, unique, check, references,         *)
(* collation); renameColumn, dropColumn and alterColumn change the pending *)
(* definition only and give no ALTER statement.                            *)
C25_CreateModeInline == CreateModeLists(ConstraintsSet)

\* The same with the constraints columnToSQL writes: all but check and
\* collation.
ConstraintsButCheckAndCollation(def) == ConstraintsSet(def) \ {"CHECK", "COLLATE"}
CreateModeInlineButCheckAndCollation == CreateModeLists(ConstraintsButCheckAndCollation)

\* A create-mode builder whose two columns have a default, a reference and a
\* check between them.
CreateWithConstraints ==
    /\ tableBuilder.mode = "create"
    /\ Len(tableBuilder.columns) = 2
    /\ \E i \in 1..2 : tableBuilder.columns[i].v.references # Undefined

\* A create-mode builder after alterColumn set a check on a pending column.
CreateWithCheck ==
    /\ tableBuilder.mode = "create"
    /\ last.op = "alterColumn"
    /\ last.error = ""
    /\ tableBuilder.columns[1].v.check # Undefined

-----------------------------------------------------------------------------
\* The batches of the call that committed, and the rows the call removed.
Committed(batches) == SelectSeq(batches, LAMBDA batch : batch.outcome = "COMMIT")
RemovedRows == SelectSeq(postgres.migrations,
                         LAMBDA row : ~Recorded(postgres'.migrations, row.name))

\* A call records as many migrations as DDL batches of up functions it
\* committed, and removes a record exactly when the batch of the down
\* function committed.
RecordedWithDdl ==
    /\ (MigrateStep \/ UpStep) =>
          /\ Len(NewRows) = Len(Committed(NewBatches))
          /\ RemovedRows = <<>>
    /\ DownStep =>
          /\ Len(RemovedRows) = Len(Committed(NewBatches))
          /\ Len(postgres'.migrations) + Len(RemovedRows) = Len(postgres.migrations)

(* C26: after every migrate(), up() and down(), resolved or rejected, a    *)
(* migration is recorded in typed_pg_migrations if and only if the DDL of  *)
(* its up function is committed and not undone by the DDL of its down      *)
(* function: the schema change and the record are made together or not at  *)
(* all.                                                                    *)
C26_RecordedWithDdl == [][RecordedWithDdl]_vars

\* The same for the calls whose INSERT or DELETE statement did not fail.
RecordedWithDdlUnlessLost == [][last'.error # "CONNECTION_CLOSED" => RecordedWithDdl]_vars

\* migrate() was rejected by its INSERT after the batch had committed: the
\* table is there and the history is empty.
CommittedUnrecorded ==
    /\ last.op = "migrate" /\ last.error = "CONNECTION_CLOSED"
    /\ Len(postgres.begun) = 1
    /\ postgres.begun[1].outcome = "COMMIT"
    /\ postgres.tables # <<>>
    /\ postgres.migrations = <<>>

-----------------------------------------------------------------------------
\* How often the DDL batch of a file was sent and how often it committed, and
\* how many rows record its name.
SentFor(file) == SelectSeq(postgres.begun, LAMBDA batch : batch.strings = BatchOf(file))
RowsFor(file) == SelectSeq(postgres.migrations, LAMBDA row : row.name = file.name)

AppliedAtMostOnce ==
    \A i \in 1..Len(folder) :
        /\ Len(Committed(SentFor(folder[i]))) <= 1
        /\ Len(RowsFor(folder[i])) <= 1

(* C27: when two invocations of migrate() or up() on the same database and *)
(* the same folder interleave, the DDL of the up function of every         *)
(* migration is executed at most once and every migration name is recorded *)
(* at most once.                                                           *)
C27_AppliedAtMostOnce == AppliedAtMostOnce

\* Every name is recorded at most once: name is the primary key.
RecordedAtMostOnce == \A i \in 1..Len(folder) : Len(RowsFor(folder[i])) <= 1

\* Two migrate() ended, the second one rejected by the primary key after it
\* had created the table a second time: the table dropped by the second
\* migration is there again.
CreatedTwice ==
    /\ \A p \in Invokers : running[p].at = "settled" /\ running[p].op = "migrate"
    /\ Len(Committed(SentFor(folder[1]))) = 2
    /\ RowNames(postgres.migrations) = FileNamesOf(folder)
    /\ folder[2].up = "dropTable"
    /\ postgres.tables # <<>>
    /\ last.error = "PostgresError"

\* Two invocations sent the batch of the same file; the second batch failed.
SentTwice ==
    /\ Len(SentFor(folder[1])) = 2
    /\ Len(Committed(SentFor(folder[1]))) = 1

-----------------------------------------------------------------------------
\* The statements the QueryBuilder handed to client.raw reach the executor
\* in one template segment more than they bind parameters.
QuerySegments ==
    \A k \in 1..Len(last.raw) :
        Len(createTemplateStringsArray(last.raw[k].sql)) = Len(last.raw[k].params) + 1

\* The batch of run(), which binds no parameter, reaches the executor as the
\* one segment that is the generated text.
BatchInOneSegment ==
    (RunStep /\ BeginCalls = 1) => Transaction.strings = <<QueuedText(changes)>>

(* C28: every statement the QueryBuilder, the Migrator or                  *)
(* SchemaBuilder.run() hands to the executor is split by                   *)
(* createTemplateStringsArray into as many template segments as it binds   *)
(* parameters, plus one, whatever text these components generate; a DDL    *)
(* batch, which binds none, reaches the executor as exactly one segment,   *)
(* the generated text.                                                     *)
C28_SegmentsMatchParams == [](QuerySegments) /\ [][BatchInOneSegment]_vars

\* The same for the texts in which no name, default or raw statement holds a
\* question mark.
QuestionMarkFree ==
    /\ ~Has(QueuedText(changes), "?")
    /\ \A i \in 1..Len(whereConditions) : ~Has(whereConditions[i].column.chars, "?")
SegmentsMatchWithoutQuestionMark ==
    [](QuestionMarkFree => QuerySegments) /\ [][QuestionMarkFree => BatchInOneSegment]_vars

\* run() sent a createTable whose column has the default '?': the batch
\* reached the executor in two segments and was rejected.
DefaultSplitsBatch ==
    /\ last.op = "run" /\ last.error # ""
    /\ Len(postgres.begun) = 1
    /\ Len(postgres.begun[1].strings) = 2
    /\ postgres.begun[1].outcome = "PostgresError"
    /\ Len(changes) = 1
    /\ changes[1].typeof = "object"
    /\ Len(changes[1].tableBuilder.columns) = 1
    /\ changes[1].tableBuilder.columns[1].v.defaultValue = Text(<<"?">>)
    /\ changes[1].tableBuilder.tableName = colA

\* count() on a condition over the column a? sent three segments and one
\* parameter.
NameSplitsQuery ==
    /\ last.op = "count" /\ last.error = ""
    /\ Len(createTemplateStringsArray(last.raw[1].sql)) = 3
    /\ Len(last.raw[1].params) = 1

\* run() sent a batch without a question mark and it committed.
BatchCommittedWhole ==
    /\ last.op = "run" /\ last.error = ""
    /\ Len(postgres.begun) = 1
    /\ postgres.begun[1].outcome = "COMMIT"
    /\ Len(postgres.begun[1].strings) = 1

\* The part of the property that is about the batch of run().
BatchAlwaysInOneSegment == [][BatchInOneSegment]_vars

-----------------------------------------------------------------------------
\* The text of the upsert statement after DO UPDATE SET, up to RETURNING.
SetList(sql) ==
    LET from == Cut(sql, {"DO UPDATE SET"}) + 2
        upto == IF Has(sql, "RETURNING") THEN Cut(sql, {"RETURNING"}) - 2 ELSE Len(sql)
    IN SubSeq(sql, from, upto)

UpsertAssigns ==
    last.op = "upsert" =>
        /\ Has(last.raw[1].sql, "DO UPDATE SET")
        /\ CountOf(SetList(last.raw[1].sql), "EXCLUDED.") >= 1

(* C29: every statement upsert emits has at least one assignment after DO  *)
(* UPDATE SET, whatever the columns of the rows, the conflict columns and  *)
(* the optional update list are.                                           *)
C29_UpsertAssigns == UpsertAssigns

\* The same for the calls that leave a column to assign: a column of the
\* first row that is no conflict column and is in the update list, if one
\* is given.
LeavesColumn ==
    \E i \in 1..Len(valuesArray(args.values)[1]) :
        LET c == valuesArray(args.values)[1][i].k
        IN /\ \A j \in 1..Len(args.conflict) : args.conflict[j] # c
           /\ args.hasUpdate => \E j \in 1..Len(args.update) : args.update[j] = c
UpsertAssignsWhenColumnLeft == (last.op = "upsert" /\ LeavesColumn) => UpsertAssigns

\* upsert of rows with the columns a, b, c on the conflict columns b, a with
\* the update list [b]: the statement ends with DO UPDATE SET.
EmptySetList ==
    /\ last.op = "upsert" /\ last.error = ""
    /\ args.conflict = <<nameB, colA>>
    /\ args.update = <<nameB>>
    /\ Len(valuesArray(args.values)[1]) = 3
    /\ args.returning = <<>>
    /\ last.raw[1].sql[Len(last.raw[1].sql)] = "DO UPDATE SET"

\* upsert of a row whose one column is the conflict column.
OnlyConflictColumn ==
    /\ last.op = "upsert"
    /\ Keys(valuesArray(args.values)[1]) = <<nameB>>
    /\ args.conflict = <<nameB, colA>>
    /\ ~args.hasUpdate
    /\ SetList(last.raw[1].sql) = <<>>

-----------------------------------------------------------------------------
\* The statement an operation compiled: the one it returned or the one it
\* handed to the executor.
StatementOf(outcome) ==
    IF outcome.raw # <<>> THEN outcome.raw[1]
    ELSE [sql |-> outcome.sql, params |-> outcome.params]

Compiling == {"toSql", "then"}

\* A step of toSql() or of awaiting the builder changes no field of the
\* builder, and compiles what the compilation before it compiled.
CompilationChangesNothing ==
    (last'.op \in Compiling /\ calls' = calls) =>
        /\ builder' = builder
        /\ args' = args
        /\ last.op \in Compiling =>
              /\ last'.error = last.error
              /\ StatementOf(last') = StatementOf(last)

(* C30: toSql() leaves every field of the builder state (selected columns, *)
(* conditions, joins, order specs, limit, offset) unchanged, so any number *)
(* of toSql() calls in a row, and any number of awaits of the builder,     *)
(* give the same SQL text and the same parameter list.                     *)
C30_CompilationChangesNothing == [][CompilationChangesNothing]_vars

\* The builder was awaited after three configuration calls, with a
\* condition, an order and a limit, and handed the executor the statement
\* toSql() returns for it.
C30_Witness ==
    /\ last.op = "then" /\ last.error = ""
    /\ calls = MaxCalls
    /\ whereConditions # <<>>
    /\ orderByConditions # <<>>
    /\ Truthy(limitValue)
    /\ StatementOf(last) = [sql |-> compile(selectColumns, limitValue).sql,
                            params |-> compile(selectColumns, limitValue).params]
    /\ Len(last.raw[1].params) >= 2

=============================================================================
